---- MODULE Spec2Model ----
(***************************************************************************)
(* Model of the .module text tooling of reactor-module-tools:              *)
(*   - parseModuleFile        (module-preview/src/lc_parser.ts)            *)
(*   - lintModuleText         (module-preview/src/lc_parser.ts)            *)
(*   - buildActivityRawIndex  (module-preview/src/source_index.ts)         *)
(* The three passes read the same text line by line.  The model feeds the  *)
(* lines one at a time to all three (ReadLine) and then ends the input     *)
(* (EndOfInput), which runs the end-of-file code of each pass.             *)
(*                                                                         *)
(* Text values (titles, field values, ids) are sequences of one-character  *)
(* strings, so that slugs, lower-casing and defaults are computed as the   *)
(* code computes them.                                                     *)
(***************************************************************************)
EXTENDS Integers, Sequences, FiniteSets, TLC

VARIABLES
    text,         \* the lines read so far (content.split("\n"), in order)
    pst,          \* parseModuleFile: ParserState
    lst,          \* lintModuleText: its local variables and diags
    ist,          \* buildActivityRawIndex: map and current
    phase,        \* "reading" while lines are consumed, "done" after the end of input
    result,       \* what parseModuleFile returned or threw
    diagnostics,  \* what lintModuleText returned
    rawIndex,     \* what buildActivityRawIndex returned
    cst,          \* parseCourseFile: its local result object
    course,       \* what parseCourseFile returned or threw
    conv,         \* convertCourse: its locals, the output directory and what it did
    ref           \* first completed lint call (text and diagnostics), for re-lint comparison

vars == <<text, pst, lst, ist, phase, result, diagnostics, rawIndex, cst, course, conv, ref>>

\* the variables of the passes over a module text
textVars == <<text, pst, lst, ist, phase, result, diagnostics, rawIndex, cst, course, ref>>

-----------------------------------------------------------------------------
(* Characters and strings *)

UpperChars == <<"A","B","C","D","E","F","G","H","I","J","K","L","M",
                "N","O","P","Q","R","S","T","U","V","W","X","Y","Z">>

LowerChars == <<"a","b","c","d","e","f","g","h","i","j","k","l","m",
                "n","o","p","q","r","s","t","u","v","w","x","y","z">>

DigitChars == {"0","1","2","3","4","5","6","7","8","9"}

\* JavaScript undefined and null, as text values no input can produce
Undefined == <<"<undefined>">>

Null == <<"<null>">>

\* JavaScript truthiness of a string-or-undefined-or-null value
Truthy(v) == v # Undefined /\ v # Null /\ v # <<>>

\* a || b on strings
OrElse(a, b) == IF Truthy(a) THEN a ELSE b

LowerOf(c) ==
    IF \E i \in 1..26 : UpperChars[i] = c
    THEN LowerChars[CHOOSE i \in 1..26 : UpperChars[i] = c]
    ELSE c

toLowerCase(s) == [i \in 1..Len(s) |-> LowerOf(s[i])]

\* [a-z0-9]
IsSlugChar(c) == (\E i \in 1..26 : LowerChars[i] = c) \/ c \in DigitChars

RECURSIVE DropNonSlug(_)
DropNonSlug(s) ==
    IF s = <<>> \/ IsSlugChar(Head(s)) THEN s ELSE DropNonSlug(Tail(s))

\* .replace(/[^a-z0-9]+/g, "-")
RECURSIVE ReplaceNonSlugRuns(_)
ReplaceNonSlugRuns(s) ==
    IF s = <<>> THEN <<>>
    ELSE IF IsSlugChar(Head(s)) THEN <<Head(s)>> \o ReplaceNonSlugRuns(Tail(s))
    ELSE <<"-">> \o ReplaceNonSlugRuns(DropNonSlug(Tail(s)))

\* .replace(/^-|-$/g, "")
StripEdgeDashes(s) ==
    LET a == IF s # <<>> /\ Head(s) = "-" THEN Tail(s) ELSE s
    IN  IF a # <<>> /\ a[Len(a)] = "-" THEN SubSeq(a, 1, Len(a) - 1) ELSE a

\* source_index.ts slug(); the same three calls are inlined in lc_parser.ts
slug(s) == StripEdgeDashes(ReplaceNonSlugRuns(toLowerCase(s)))

\* the marker words and default titles, as text
MarkerChars(m) ==
    CASE m = "DIALOGUE" -> <<"D","I","A","L","O","G","U","E">>
      [] m = "GRAMMAR"  -> <<"G","R","A","M","M","A","R">>
      [] m = "EXERCISE" -> <<"E","X","E","R","C","I","S","E">>
      [] m = "CHAT"     -> <<"C","H","A","T">>
      [] OTHER          -> <<"?">>

DefaultTitle(m) ==
    CASE m = "DIALOGUE" -> <<"D","i","a","l","o","g","u","e">>
      [] m = "GRAMMAR"  -> <<"G","r","a","m","m","a","r">>
      [] m = "EXERCISE" -> <<"E","x","e","r","c","i","s","e">>
      [] m = "CHAT"     -> <<"C","h","a","t">>
      [] OTHER          -> <<"?">>

UntitledText == <<"U","n","t","i","t","l","e","d">>

UntitledLessonText == <<"U","n","t","i","t","l","e","d"," ","L","e","s","s","o","n">>

untitledText == <<"u","n","t","i","t","l","e","d">>

DefaultLessonId == <<"d","e","f","a","u","l","t","-","l","e","s","s","o","n">>

DefaultLessonTitle == <<"D","e","f","a","u","l","t"," ","L","e","s","s","o","n">>

-----------------------------------------------------------------------------
(* Lines.  A line is kept as the parts the three passes look at:           *)
(*   ind   leading whitespace: "" none, "SP" a space, "TAB" a tab, "FF" a  *)
(*         form feed (whitespace that trimStart removes but that is        *)
(*         neither " " nor "\t")                                           *)
(*   kind  what follows the leading whitespace:                            *)
(*         "blank"   nothing                                               *)
(*         "comment" starts with #                                         *)
(*         "marker"  starts with $: name is the \w+ word after it, sep     *)
(*                   what follows the word ("end" nothing, "ws" whitespace *)
(*                   and then val, "colon" a colon and then val)           *)
(*         "example" the bare word EXAMPLE                                 *)
(*         "field"   NAME: value with NAME in [A-Z_]+, val the value       *)
(*         "raw"     any other text                                        *)
(* Trailing whitespace is not kept: every pass applies trimEnd first.      *)
(***************************************************************************)

Ln(ind, kind, name, sep, val) ==
    [ind |-> ind, kind |-> kind, name |-> name, sep |-> sep, val |-> val]

Blank == Ln("", "blank", "", "", <<>>)

Marker(name) == Ln("", "marker", name, "end", <<>>)

MarkerT(name, title) == Ln("", "marker", name, "ws", title)

MarkerColon(name, title) == Ln("", "marker", name, "colon", title)

Field(name, val) == Ln("", "field", name, "", val)

Example == Ln("", "example", "", "", <<>>)

Raw(val) == Ln("", "raw", "", "", val)

Comment(val) == Ln("", "comment", "", "", val)

Indented(ind, l) == [l EXCEPT !.ind = ind]

\* line.trimEnd().trimStart().startsWith("#")
IsComment(l) == l.kind = "comment"

\* a marker test that trims the line at both ends
StartsWithDollarTrimmed(l) == l.kind = "marker"

\* line.trimEnd().startsWith("$")
StartsWithDollar(l) == l.ind = "" /\ l.kind = "marker"

\* line.match(/^\$(\w+)(?:\s+(.*))?$/) on a line that starts with $
MarkerMatches(l) == l.kind = "marker" /\ l.name # "" /\ l.sep \in {"end", "ws"}

\* title of the match: undefined when nothing follows the word
MarkerTitle(l) == IF l.sep = "ws" THEN l.val ELSE Undefined

\* a field test that trims the line at both ends
FieldMatchesTrimmed(l) == l.kind = "field"

\* trimmed.match(/^([A-Z_]+):\s*(.*)?$/) with trimmed = line.trimEnd()
FieldMatches(l) == l.ind = "" /\ l.kind = "field"

\* trimmed === "EXAMPLE" with trimmed = line.trimEnd()
IsExampleAtCol0(l) == l.ind = "" /\ l.kind = "example"

ActivityMarkers == {"DIALOGUE", "GRAMMAR", "EXERCISE", "CHAT"}

-----------------------------------------------------------------------------
(* More string helpers, for the voice fields *)

IsWs(c) == c \in {" ", "\t"}

RECURSIVE TrimStart(_)
TrimStart(s) == IF s # <<>> /\ IsWs(Head(s)) THEN TrimStart(Tail(s)) ELSE s

RECURSIVE TrimEnd(_)
TrimEnd(s) ==
    IF s # <<>> /\ IsWs(s[Len(s)]) THEN TrimEnd(SubSeq(s, 1, Len(s) - 1)) ELSE s

Trim(s) == TrimEnd(TrimStart(s))

\* s.indexOf(c) + 1: the first position of c in s, 0 when there is none
FirstIndex(s, c) ==
    IF \E i \in 1..Len(s) : s[i] = c
    THEN CHOOSE i \in 1..Len(s) : s[i] = c /\ \A j \in 1..(i - 1) : s[j] # c
    ELSE 0

\* s.split("|")
RECURSIVE SplitPipe(_)
SplitPipe(s) ==
    LET p == FirstIndex(s, "|")
    IN  IF p = 0 THEN <<s>>
        ELSE <<SubSeq(s, 1, p - 1)>> \o SplitPipe(SubSeq(s, p + 1, Len(s)))

\* parts.join(" | ")
RECURSIVE JoinPipe(_)
JoinPipe(parts) ==
    IF parts = <<>> THEN <<>>
    ELSE IF Len(parts) = 1 THEN parts[1]
    ELSE parts[1] \o <<" ", "|", " ">> \o JoinPipe(Tail(parts))

-----------------------------------------------------------------------------
(* Parser data (lc_types, as used by lc_parser.ts) *)

\* state.currentLesson === null
NoLesson == [id |-> Null, title |-> Null, activities |-> <<>>]

\* state.currentActivity === null
NoActivity ==
    [type |-> "NONE", id |-> Null, title |-> Null, intro |-> Null,
     instruction |-> Undefined, ttsPrompt |-> Undefined,
     lines |-> <<>>, items |-> <<>>, content |-> <<>>,
     scenario |-> Undefined, initialPrompt |-> Undefined]

\* a voice slot that is null
NoVoice == [voice |-> Null, prompt |-> Null, displayName |-> Undefined]

\* an entry of activityContentBuffer: a tagged string `TAG:value`, or a raw line
Tagged(tag, val) == [tag |-> tag, val |-> val, src |-> Blank]

RawItem(l) == [tag |-> "RAW", val |-> <<>>, src |-> l]

\* the ParserState parseModuleFile starts from
NewParserState ==
    [module |-> [diocoDocId |-> Undefined, title |-> Undefined,
                 description |-> Undefined, image |-> Undefined,
                 targetLang_G |-> Undefined, homeLang_G |-> Undefined,
                 ttsPrompt |-> Undefined, lessons |-> <<>>],
     voiceConfig |-> [default |-> NoVoice, prompt |-> NoVoice,
                      response |-> NoVoice, introVoice |-> NoVoice,
                      speakers |-> <<>>],
     currentLesson |-> NoLesson,
     currentActivity |-> NoActivity,
     activityContentBuffer |-> <<>>]

generateLessonId(title) == slug(title)

\* lc_parser.ts generateActivityId: `${type}-${slug}`
generateActivityId(type, title) == MarkerChars(type) \o <<"-">> \o slug(title)

-----------------------------------------------------------------------------
(* parseDialogueLines *)

NewDialogueLine ==
    [speaker |-> Undefined, text |-> Undefined, translation |-> Undefined,
     notes |-> Undefined, vocab |-> <<>>]

\* the locals of parseDialogueLines before the loop; vocab <<>> stands for
\* "no vocab" (an attached list is never empty)
NewDialogueState ==
    [lines |-> <<>>, currentLine |-> NewDialogueLine,
     pendingVocab |-> <<>>, pendingVocabDefinition |-> Null]

\* the object pushed onto lines
EmitLine(cl) ==
    [speaker |-> OrElse(cl.speaker, Null), text |-> cl.text,
     translation |-> OrElse(cl.translation, <<>>),
     notes |-> OrElse(cl.notes, Null), vocab |-> cl.vocab]

\* "Attach pending vocab to this line"
AttachVocab(st) ==
    IF Len(st.pendingVocab) > 0
    THEN [st EXCEPT !.currentLine.vocab = st.pendingVocab, !.pendingVocab = <<>>]
    ELSE st

\* a VOCAB tag that ignores a definition that arrived early
VocabItemNoEarly(st, item) ==
    [st EXCEPT
        !.pendingVocab = Append(@, [word |-> item.val, definition |-> <<>>]),
        !.pendingVocabDefinition = Null]

VocabItem(st, item) ==
    [st EXCEPT
        !.pendingVocab = Append(@, [word |-> item.val,
                                    definition |-> OrElse(st.pendingVocabDefinition, <<>>)]),
        !.pendingVocabDefinition = Null]

VocabTItem(st, item) ==
    IF Len(st.pendingVocab) > 0
    THEN [st EXCEPT !.pendingVocab[Len(st.pendingVocab)].definition = item.val]
    ELSE [st EXCEPT !.pendingVocabDefinition = item.val]

SpeakerItem(st, item) ==
    LET flushed == IF Truthy(st.currentLine.text)
                   THEN [st EXCEPT !.lines = Append(@, EmitLine(st.currentLine)),
                                   !.currentLine = NewDialogueLine]
                   ELSE st
    IN  AttachVocab([flushed EXCEPT !.currentLine.speaker = item.val])

\* a LINE tag that does not keep the speaker for the next line
LineItemDropsSpeaker(st, item) ==
    LET flushed == IF Truthy(st.currentLine.text)
                   THEN [st EXCEPT !.lines = Append(@, EmitLine(st.currentLine)),
                                   !.currentLine = NewDialogueLine]
                   ELSE st
    IN  AttachVocab([flushed EXCEPT !.currentLine.text = item.val])

\* a LINE tag that always starts a new line object
LineItemFresh(st, item) ==
    LET flushed == IF Truthy(st.currentLine.text)
                   THEN [st EXCEPT !.lines = Append(@, EmitLine(st.currentLine))]
                   ELSE st
        fresh == [NewDialogueLine EXCEPT !.speaker = st.currentLine.speaker,
                                         !.vocab = IF Truthy(st.currentLine.text) THEN <<>>
                                                   ELSE st.currentLine.vocab]
    IN  AttachVocab([flushed EXCEPT !.currentLine = [fresh EXCEPT !.text = item.val]])

LineItem(st, item) ==
    LET flushed == IF Truthy(st.currentLine.text)
                   THEN [st EXCEPT !.lines = Append(@, EmitLine(st.currentLine)),
                                   !.currentLine =
                                       [NewDialogueLine EXCEPT !.speaker = st.currentLine.speaker]]
                   ELSE st
    IN  AttachVocab([flushed EXCEPT !.currentLine.text = item.val])

\* one iteration of the loop over the buffer
DialogueItem(st, item) ==
    CASE item.tag = "VOCAB"   -> VocabItem(st, item)
      [] item.tag = "VOCAB_T" -> VocabTItem(st, item)
      [] item.tag = "LINE_T"  -> [st EXCEPT !.currentLine.translation = item.val]
      [] item.tag = "NOTES"   -> [st EXCEPT !.currentLine.notes = item.val]
      [] item.tag = "SPEAKER" -> SpeakerItem(st, item)
      [] item.tag = "LINE"    -> LineItem(st, item)
      [] OTHER                -> st

RECURSIVE DialogueLoop(_, _)
DialogueLoop(st, buffer) ==
    IF buffer = <<>> THEN st
    ELSE DialogueLoop(DialogueItem(st, Head(buffer)), Tail(buffer))

\* an end of parseDialogueLines that forgets the line in progress
DialogueFlushNone(st) == st.lines

\* "Don't forget the last line"
DialogueFlush(st) ==
    IF Truthy(st.currentLine.text) THEN Append(st.lines, EmitLine(st.currentLine))
    ELSE st.lines

parseDialogueLines(buffer) == DialogueFlush(DialogueLoop(NewDialogueState, buffer))

-----------------------------------------------------------------------------
(* parseExerciseItems *)

NewExerciseItem ==
    [prompt |-> Undefined, promptTranslation |-> Undefined, response |-> Undefined,
     responseTranslation |-> Undefined, isExample |-> FALSE]

NewExerciseState == [items |-> <<>>, currentItem |-> NewExerciseItem, isExample |-> FALSE]

EmitItem(ci) ==
    [prompt |-> ci.prompt, promptTranslation |-> OrElse(ci.promptTranslation, Null),
     response |-> ci.response, responseTranslation |-> OrElse(ci.responseTranslation, Null),
     isExample |-> ci.isExample]

ItemComplete(ci) == Truthy(ci.prompt) /\ Truthy(ci.response)

\* a PROMPT tag that leaves the example flag set for the prompts after it
PromptItemStickyExample(st, item) ==
    [items |-> IF ItemComplete(st.currentItem)
               THEN Append(st.items, EmitItem(st.currentItem)) ELSE st.items,
     currentItem |-> [NewExerciseItem EXCEPT !.prompt = item.val,
                                             !.isExample = st.isExample],
     isExample |-> st.isExample]

PromptItem(st, item) ==
    [items |-> IF ItemComplete(st.currentItem)
               THEN Append(st.items, EmitItem(st.currentItem)) ELSE st.items,
     currentItem |-> [NewExerciseItem EXCEPT !.prompt = item.val,
                                             !.isExample = st.isExample],
     isExample |-> FALSE]

\* a loop body in which a RESPONSE tag does not replace a response already set
ExerciseItemStepFirstResponse(st, item) ==
    CASE item.tag = "EXAMPLE"    -> [st EXCEPT !.isExample = TRUE]
      [] item.tag = "PROMPT"     -> PromptItem(st, item)
      [] item.tag = "PROMPT_T"   -> [st EXCEPT !.currentItem.promptTranslation = item.val]
      [] item.tag = "RESPONSE"   ->
            IF Truthy(st.currentItem.response) THEN st
            ELSE [st EXCEPT !.currentItem.response = item.val]
      [] item.tag = "RESPONSE_T" -> [st EXCEPT !.currentItem.responseTranslation = item.val]
      [] OTHER                   -> st

\* one iteration of the loop over the buffer
ExerciseItemStep(st, item) ==
    CASE item.tag = "EXAMPLE"    -> [st EXCEPT !.isExample = TRUE]
      [] item.tag = "PROMPT"     -> PromptItem(st, item)
      [] item.tag = "PROMPT_T"   -> [st EXCEPT !.currentItem.promptTranslation = item.val]
      [] item.tag = "RESPONSE"   -> [st EXCEPT !.currentItem.response = item.val]
      [] item.tag = "RESPONSE_T" -> [st EXCEPT !.currentItem.responseTranslation = item.val]
      [] OTHER                   -> st

RECURSIVE ExerciseLoop(_, _)
ExerciseLoop(st, buffer) ==
    IF buffer = <<>> THEN st
    ELSE ExerciseLoop(ExerciseItemStep(st, Head(buffer)), Tail(buffer))

\* "Don't forget the last item"
ExerciseFlush(st) ==
    IF ItemComplete(st.currentItem) THEN Append(st.items, EmitItem(st.currentItem))
    ELSE st.items

parseExerciseItems(buffer) == ExerciseFlush(ExerciseLoop(NewExerciseState, buffer))


-----------------------------------------------------------------------------
(* Module parser: the handlers *)

\* a buffer entry that is only whitespace
IsBlankItem(item) == item.tag = "RAW" /\ item.src.kind = "blank"

\* parseGrammarContent: buffer.join("\n").trim(), kept as the joined entries
\* without what the trim removes: the whitespace-only entries at either end
\* and the indentation of the first entry left
RECURSIVE DropLeadingBlank(_)
DropLeadingBlank(buffer) ==
    IF buffer # <<>> /\ IsBlankItem(Head(buffer))
    THEN DropLeadingBlank(Tail(buffer)) ELSE buffer

RECURSIVE DropTrailingBlank(_)
DropTrailingBlank(buffer) ==
    IF buffer # <<>> /\ IsBlankItem(buffer[Len(buffer)])
    THEN DropTrailingBlank(SubSeq(buffer, 1, Len(buffer) - 1)) ELSE buffer

TrimJoined(buffer) ==
    LET kept == DropTrailingBlank(DropLeadingBlank(buffer))
    IN  IF kept = <<>> THEN <<>>
        ELSE <<[Head(kept) EXCEPT !.src = Indented("", @)]>> \o Tail(kept)

\* a grammar parser that drops every whitespace-only entry of the buffer
parseGrammarContentNoBlanks(buffer) ==
    TrimJoined(SelectSeq(buffer, LAMBDA item : ~IsBlankItem(item)))

parseGrammarContent(buffer) == TrimJoined(buffer)

finalizeActivity(state) ==
    IF state.currentActivity = NoActivity \/ state.currentLesson = NoLesson THEN state
    ELSE
        LET activity == state.currentActivity
            buffer == state.activityContentBuffer
            done ==
                CASE activity.type = "DIALOGUE" ->
                        [activity EXCEPT !.lines = parseDialogueLines(buffer)]
                  [] activity.type = "GRAMMAR" ->
                        [activity EXCEPT !.content = parseGrammarContent(buffer)]
                  [] activity.type = "EXERCISE" ->
                        [activity EXCEPT !.items = parseExerciseItems(buffer)]
                  [] OTHER -> activity
        IN  [state EXCEPT !.currentLesson.activities = Append(@, done),
                          !.currentActivity = NoActivity,
                          !.activityContentBuffer = <<>>]

\* finalizeLesson that drops a lesson without activities
finalizeLessonDropEmpty(state) ==
    IF state.currentLesson = NoLesson THEN state
    ELSE IF state.currentLesson.activities = <<>>
    THEN [state EXCEPT !.currentLesson = NoLesson]
    ELSE [state EXCEPT !.module.lessons = Append(@, state.currentLesson),
                       !.currentLesson = NoLesson]

finalizeLesson(state) ==
    IF state.currentLesson = NoLesson THEN state
    ELSE [state EXCEPT !.module.lessons = Append(@, state.currentLesson),
                       !.currentLesson = NoLesson]

\* the activity object startActivity builds for a type and title
NewActivity(type, title) ==
    LET base == [NoActivity EXCEPT !.type = type,
                                   !.id = generateActivityId(type, title),
                                   !.title = title]
    IN  CASE type = "DIALOGUE" -> [base EXCEPT !.instruction = Null, !.ttsPrompt = Null]
          [] type = "EXERCISE" -> [base EXCEPT !.instruction = Null, !.ttsPrompt = Null]
          [] type = "GRAMMAR"  -> base
          [] type = "CHAT"     -> [base EXCEPT !.scenario = <<>>, !.initialPrompt = <<>>]
          [] OTHER             -> base

\* startActivity without the fallback lesson
startActivityNoLesson(state, type, title) ==
    [finalizeActivity(state) EXCEPT !.currentActivity = NewActivity(type, title),
                                    !.activityContentBuffer = <<>>]

startActivity(state, type, title) ==
    LET closed == finalizeActivity(state)
        withLesson ==
            IF closed.currentLesson = NoLesson
            THEN [closed EXCEPT !.currentLesson =
                     [id |-> DefaultLessonId, title |-> DefaultLessonTitle,
                      activities |-> <<>>]]
            ELSE closed
    IN  [withLesson EXCEPT !.currentActivity = NewActivity(type, title),
                           !.activityContentBuffer = <<>>]

\* a $LESSON case that replaces the open lesson without appending it
startLessonDropsOpen(state, title) ==
    [finalizeActivity(state) EXCEPT !.currentLesson =
        [id |-> generateLessonId(OrElse(title, UntitledText)),
         title |-> OrElse(title, UntitledLessonText),
         activities |-> <<>>]]

\* case "LESSON" of handleSectionMarker
startLesson(state, title) ==
    [finalizeLesson(finalizeActivity(state)) EXCEPT !.currentLesson =
        [id |-> generateLessonId(OrElse(title, UntitledText)),
         title |-> OrElse(title, UntitledLessonText),
         activities |-> <<>>]]

\* a marker handler in which $MODULE closes the open activity and lesson
handleSectionMarkerModuleCloses(state, line) ==
    IF ~MarkerMatches(line) THEN state
    ELSE
        LET marker == line.name
            title == MarkerTitle(line)
        IN  CASE marker = "MODULE" -> finalizeLesson(finalizeActivity(state))
              [] marker = "LESSON" -> startLesson(state, title)
              [] marker \in ActivityMarkers ->
                    startActivity(state, marker, OrElse(title, DefaultTitle(marker)))
              [] OTHER -> state

handleSectionMarker(state, line) ==
    IF ~MarkerMatches(line) THEN state
    ELSE
        LET marker == line.name
            title == MarkerTitle(line)
        IN  CASE marker = "MODULE" -> state
              [] marker = "LESSON" -> startLesson(state, title)
              [] marker \in ActivityMarkers ->
                    startActivity(state, marker, OrElse(title, DefaultTitle(marker)))
              [] OTHER -> state

\* value.match(/^([^|]+)(?:\s*\|\s*(.*))?$/)
VoiceMatches(value) == value # <<>> /\ value[1] # "|"

\* the { voice, prompt } built from that match
VoiceSpecOf(value) ==
    LET p == FirstIndex(value, "|")
        m1 == IF p = 0 THEN value ELSE SubSeq(value, 1, p - 1)
        m2 == IF p = 0 THEN Undefined ELSE TrimStart(SubSeq(value, p + 1, Len(value)))
    IN  [voice |-> Trim(m1), prompt |-> IF Truthy(m2) THEN Trim(m2) ELSE Null,
         displayName |-> Undefined]

\* value.match(/^(.+?)\s*=\s*([^|]+)(?:\s*\|\s*(.*))?$/): the positions of an "="
\* with something before it and a voice after it; the match takes the first
SpeakerEqPositions(value) ==
    {i \in 2..Len(value) : value[i] = "=" /\ i < Len(value) /\ value[i + 1] # "|"}

SpeakerMatches(value) == SpeakerEqPositions(value) # {}

SpeakerEq(value) ==
    CHOOSE i \in SpeakerEqPositions(value) : \A j \in SpeakerEqPositions(value) : i <= j

SpeakerNameOf(value) == Trim(SubSeq(value, 1, SpeakerEq(value) - 1))

SpeakerVoiceOf(value) == VoiceSpecOf(SubSeq(value, SpeakerEq(value) + 1, Len(value)))

\* state.voiceConfig.speakers[key] = spec
SetSpeaker(speakers, key, spec) ==
    [k \in (DOMAIN speakers) \cup {key} |-> IF k = key THEN spec ELSE speakers[k]]

\* value.split("|").map((s) => s.trim())
TrimmedParts(value) ==
    LET parts == SplitPipe(value) IN [i \in 1..Len(parts) |-> Trim(parts[i])]

\* the first switch of handleField: module-level fields
HeaderField(state, field, value) ==
    CASE field = "DIOCO_DOC_ID"  -> [state EXCEPT !.module.diocoDocId = value]
      [] field = "TITLE"         -> [state EXCEPT !.module.title = value]
      [] field = "DESCRIPTION"   -> [state EXCEPT !.module.description = value]
      [] field = "IMAGE"         -> [state EXCEPT !.module.image = value]
      [] field = "TARGET_LANG_G" -> [state EXCEPT !.module.targetLang_G = value]
      [] field \in {"HOME_LANG_G", "USER_LANG_G"} ->
            [state EXCEPT !.module.homeLang_G = value]
      [] field = "TTS_PROMPT"    -> [state EXCEPT !.module.ttsPrompt = value]
      [] field = "VOICE_DEFAULT" ->
            IF VoiceMatches(value)
            THEN [state EXCEPT !.voiceConfig.default = VoiceSpecOf(value)] ELSE state
      [] field = "VOICE_PROMPT" ->
            IF VoiceMatches(value)
            THEN [state EXCEPT !.voiceConfig.prompt = VoiceSpecOf(value)] ELSE state
      [] field = "VOICE_RESPONSE" ->
            IF VoiceMatches(value)
            THEN [state EXCEPT !.voiceConfig.response = VoiceSpecOf(value)] ELSE state
      [] field = "VOICE_INTRO" ->
            IF VoiceMatches(value)
            THEN [state EXCEPT !.voiceConfig.introVoice = VoiceSpecOf(value)] ELSE state
      [] field = "VOICE_SPEAKER" ->
            IF SpeakerMatches(value)
            THEN [state EXCEPT !.voiceConfig.speakers =
                     SetSpeaker(@, SpeakerNameOf(value), SpeakerVoiceOf(value))]
            ELSE state
      [] field = "VOICE" ->
            LET parts == TrimmedParts(value)
            IN  IF Len(parts) >= 2
                THEN [state EXCEPT !.voiceConfig.speakers =
                         SetSpeaker(@, parts[1],
                             [voice |-> parts[2],
                              prompt |-> OrElse(JoinPipe(SubSeq(parts, 3, Len(parts))), Null),
                              displayName |-> Null])]
                ELSE state
      [] OTHER -> state

\* the fields pushed onto the content buffer as `FIELD:value`
BufferedFields ==
    {"SPEAKER", "LINE", "LINE_T", "NOTES", "VOCAB", "VOCAB_T",
     "PROMPT", "PROMPT_T", "RESPONSE", "RESPONSE_T"}

\* the second switch of handleField: activity-level fields
ActivityField(state, field, value) ==
    LET type == state.currentActivity.type
    IN  CASE field = "TTS_PROMPT" ->
                IF type \in {"DIALOGUE", "EXERCISE"}
                THEN [state EXCEPT !.currentActivity.ttsPrompt = value] ELSE state
          [] field = "INSTRUCTION" ->
                IF type \in {"DIALOGUE", "EXERCISE"}
                THEN [state EXCEPT !.currentActivity.instruction = value] ELSE state
          [] field = "INTRO" -> [state EXCEPT !.currentActivity.intro = value]
          [] field = "SCENARIO" ->
                IF type = "CHAT"
                THEN [state EXCEPT !.currentActivity.scenario = value] ELSE state
          [] field = "INITIAL_PROMPT" ->
                IF type = "CHAT"
                THEN [state EXCEPT !.currentActivity.initialPrompt = value] ELSE state
          [] field \in BufferedFields ->
                [state EXCEPT !.activityContentBuffer = Append(@, Tagged(field, value))]
          [] OTHER -> state

\* a field handler that takes header fields whenever no activity is open
handleFieldNoActivityOnly(state, field, value) ==
    IF state.currentActivity = NoActivity
    THEN HeaderField(state, field, value)
    ELSE ActivityField(state, field, value)

handleField(state, field, value) ==
    IF state.currentActivity = NoActivity /\ state.currentLesson = NoLesson
    THEN HeaderField(state, field, value)
    ELSE IF state.currentActivity # NoActivity
    THEN ActivityField(state, field, value)
    ELSE state

processLine(state, line) ==
    IF IsComment(line) THEN state
    ELSE IF StartsWithDollar(line) THEN handleSectionMarker(state, line)
    ELSE IF IsExampleAtCol0(line) /\ state.currentActivity.type = "EXERCISE"
    THEN [state EXCEPT !.activityContentBuffer = Append(@, Tagged("EXAMPLE", <<>>))]
    ELSE IF FieldMatches(line) THEN handleField(state, line.name, line.val)
    ELSE IF state.currentActivity # NoActivity
    THEN [state EXCEPT !.activityContentBuffer = Append(@, RawItem(line))]
    ELSE state

\* nothing returned (yet)
NoModule ==
    [diocoDocId |-> Null, title |-> Null, description |-> Null, image |-> Null,
     targetLang_G |-> Null, homeLang_G |-> Null, voiceConfig |-> NewParserState.voiceConfig,
     ttsPrompt |-> Null, lessons |-> <<>>]

NotReturned == [ok |-> FALSE, error |-> "", module |-> NoModule]

Thrown(message) == [ok |-> FALSE, error |-> message, module |-> NoModule]

\* parseModuleEnd with the TITLE check moved before the DIOCO_DOC_ID check
parseModuleEndTitleFirst(state) ==
    LET mod == finalizeLesson(finalizeActivity(state)).module
    IN  IF ~Truthy(mod.title) THEN Thrown("Missing TITLE in .module file")
        ELSE IF ~Truthy(mod.diocoDocId) THEN Thrown("Missing DIOCO_DOC_ID in .module file")
        ELSE IF ~Truthy(mod.targetLang_G) THEN Thrown("Missing TARGET_LANG_G in .module file")
        ELSE IF ~Truthy(mod.homeLang_G) THEN Thrown("Missing HOME_LANG_G in .module file")
        ELSE [ok |-> TRUE, error |-> "", module |-> NoModule]

\* parseModuleEnd that closes the open lesson but not the open activity
parseModuleEndLessonOnly(state) ==
    LET final == finalizeLesson(state)
        mod == final.module
    IN  IF ~Truthy(mod.diocoDocId) THEN Thrown("Missing DIOCO_DOC_ID in .module file")
        ELSE IF ~Truthy(mod.title) THEN Thrown("Missing TITLE in .module file")
        ELSE IF ~Truthy(mod.targetLang_G) THEN Thrown("Missing TARGET_LANG_G in .module file")
        ELSE IF ~Truthy(mod.homeLang_G) THEN Thrown("Missing HOME_LANG_G in .module file")
        ELSE [ok |-> TRUE, error |-> "",
              module |-> [diocoDocId |-> mod.diocoDocId, title |-> mod.title,
                          description |-> OrElse(mod.description, Null),
                          image |-> OrElse(mod.image, Null),
                          targetLang_G |-> mod.targetLang_G,
                          homeLang_G |-> mod.homeLang_G,
                          voiceConfig |-> final.voiceConfig,
                          ttsPrompt |-> IF mod.ttsPrompt = Undefined THEN Null
                                        ELSE mod.ttsPrompt,
                          lessons |-> mod.lessons]]

\* the end of parseModuleFile, after the loop: finalize, validate, return
parseModuleEnd(state) ==
    LET final == finalizeLesson(finalizeActivity(state))
        mod == final.module
    IN  IF ~Truthy(mod.diocoDocId) THEN Thrown("Missing DIOCO_DOC_ID in .module file")
        ELSE IF ~Truthy(mod.title) THEN Thrown("Missing TITLE in .module file")
        ELSE IF ~Truthy(mod.targetLang_G) THEN Thrown("Missing TARGET_LANG_G in .module file")
        ELSE IF ~Truthy(mod.homeLang_G) THEN Thrown("Missing HOME_LANG_G in .module file")
        ELSE [ok |-> TRUE, error |-> "",
              module |-> [diocoDocId |-> mod.diocoDocId, title |-> mod.title,
                          description |-> OrElse(mod.description, Null),
                          image |-> OrElse(mod.image, Null),
                          targetLang_G |-> mod.targetLang_G,
                          homeLang_G |-> mod.homeLang_G,
                          voiceConfig |-> final.voiceConfig,
                          ttsPrompt |-> IF mod.ttsPrompt = Undefined THEN Null
                                        ELSE mod.ttsPrompt,
                          lessons |-> mod.lessons]]

-----------------------------------------------------------------------------
(* Source block indexer (source_index.ts) *)

\* source_index.ts generateActivityId: `${type}-${slug(title || 'untitled')}`
sourceIndexActivityId(type, title) ==
    MarkerChars(type) \o <<"-">> \o slug(OrElse(title, untitledText))

NoBlock == [open |-> FALSE, id |-> Null, startIdx |-> 0]

\* map = {} and current = null
NewIndexState == [map |-> <<>>, current |-> NoBlock]

\* close(endIdxInclusive): record the open block, lines are 0-based in the code
close(st, lines, endIdxInclusive) ==
    IF ~st.current.open THEN st
    ELSE
        LET block == [startLine |-> st.current.startIdx + 1,
                      endLine |-> endIdxInclusive + 1,
                      text |-> SubSeq(lines, st.current.startIdx + 1, endIdxInclusive + 1)]
        IN  [map |-> [k \in (DOMAIN st.map) \cup {st.current.id} |->
                         IF k = st.current.id THEN block ELSE st.map[k]],
             current |-> NoBlock]

\* an indexer that does not fall back on the marker name for a missing title
IndexLineTitleOnly(st, lines, i) ==
    LET raw == lines[i + 1]
    IN  IF ~StartsWithDollar(raw) THEN st
        ELSE
            LET closed == close(st, lines, i - 1)
                title == IF raw.sep = "ws" THEN Trim(raw.val) ELSE <<>>
            IN  IF ~MarkerMatches(raw) THEN closed
                ELSE IF raw.name \in ActivityMarkers
                THEN [closed EXCEPT !.current =
                         [open |-> TRUE,
                          id |-> sourceIndexActivityId(raw.name, title),
                          startIdx |-> i]]
                ELSE closed

\* an indexer that closes the open block only at a marker that matches the pattern
IndexLineCloseOnMatch(st, lines, i) ==
    LET raw == lines[i + 1]
    IN  IF ~StartsWithDollar(raw) \/ ~MarkerMatches(raw) THEN st
        ELSE
            LET closed == close(st, lines, i - 1)
                title == IF raw.sep = "ws" THEN Trim(raw.val) ELSE <<>>
            IN  IF raw.name \in ActivityMarkers
                THEN [closed EXCEPT !.current =
                         [open |-> TRUE,
                          id |-> sourceIndexActivityId(raw.name,
                                     OrElse(title, MarkerChars(raw.name))),
                          startIdx |-> i]]
                ELSE closed

\* one iteration of the loop of buildActivityRawIndex, on lines[i] (0-based i)
IndexLine(st, lines, i) ==
    LET raw == lines[i + 1]
    IN  IF ~StartsWithDollar(raw) THEN st
        ELSE
            LET closed == close(st, lines, i - 1)
                title == IF raw.sep = "ws" THEN Trim(raw.val) ELSE <<>>
            IN  IF ~MarkerMatches(raw) THEN closed
                ELSE IF raw.name \in ActivityMarkers
                THEN [closed EXCEPT !.current =
                         [open |-> TRUE,
                          id |-> sourceIndexActivityId(raw.name,
                                     OrElse(title, MarkerChars(raw.name))),
                          startIdx |-> i]]
                ELSE closed

\* after the loop: close the trailing block and return the map
buildActivityRawIndexEnd(st, lines) == close(st, lines, Len(lines) - 1).map

-----------------------------------------------------------------------------
(* Grammar registry (spec_from_ebnf.ts) and the linter's tables *)

sectionNames == {"CHAT", "DIALOGUE", "EXERCISE", "GRAMMAR", "LESSON", "MODULE"}

voiceFields ==
    {"VOICE_DEFAULT", "VOICE_INTRO", "VOICE_PROMPT", "VOICE_RESPONSE", "VOICE_SPEAKER"}

headerFields ==
    {"DESCRIPTION", "DIOCO_DOC_ID", "HOME_LANG_G", "IMAGE", "TARGET_LANG_G", "TITLE",
     "USER_LANG_G"} \cup voiceFields

dialogueFields ==
    {"INSTRUCTION", "INTRO", "LINE", "LINE_T", "NOTES", "SPEAKER", "VOCAB", "VOCAB_T"}

exerciseFields == {"INSTRUCTION", "INTRO", "PROMPT", "PROMPT_T", "RESPONSE", "RESPONSE_T"}

grammarFields == {"INTRO"}

chatFields == {"INITIAL_PROMPT", "INTRO", "SCENARIO"}

VALID_GEMINI_VOICES ==
    {<<"Z","e","p","h","y","r">>,
     <<"P","u","c","k">>,
     <<"C","h","a","r","o","n">>,
     <<"K","o","r","e">>,
     <<"F","e","n","r","i","r">>,
     <<"L","e","d","a">>,
     <<"O","r","u","s">>,
     <<"A","o","e","d","e">>,
     <<"C","a","l","l","i","r","r","h","o","e">>,
     <<"A","u","t","o","n","o","e">>,
     <<"E","n","c","e","l","a","d","u","s">>,
     <<"I","a","p","e","t","u","s">>,
     <<"U","m","b","r","i","e","l">>,
     <<"A","l","g","i","e","b","a">>,
     <<"D","e","s","p","i","n","a">>,
     <<"E","r","i","n","o","m","e">>,
     <<"A","l","g","e","n","i","b">>,
     <<"R","a","s","a","l","g","e","t","h","i">>,
     <<"L","a","o","m","e","d","e","i","a">>,
     <<"A","c","h","e","r","n","a","r">>,
     <<"A","l","n","i","l","a","m">>,
     <<"S","c","h","e","d","a","r">>,
     <<"G","a","c","r","u","x">>,
     <<"P","u","l","c","h","e","r","r","i","m","a">>,
     <<"A","c","h","i","r","d">>,
     <<"Z","u","b","e","n","e","l","g","e","n","u","b","i">>,
     <<"V","i","n","d","e","m","i","a","t","r","i","x">>,
     <<"S","a","d","a","c","h","b","i","a">>,
     <<"S","a","d","a","l","t","a","g","e","r">>,
     <<"S","u","l","a","f","a","t">>}

IsLetter(c) == \E i \in 1..26 : UpperChars[i] = c \/ LowerChars[i] = c

\* idNoSpacesRe = /^[A-Za-z][A-Za-z0-9_]*$/
idNoSpacesRe(s) ==
    /\ s # <<>>
    /\ IsLetter(s[1])
    /\ \A i \in 1..Len(s) : IsLetter(s[i]) \/ s[i] \in DigitChars \/ s[i] = "_"

-----------------------------------------------------------------------------
(* Diagnostics linter (lintModuleText).  A line number 0 stands for null. *)

\* the local variables of lintModuleText before its loop
NewLintState ==
    [diags |-> <<>>,
     sawModuleMarker |-> FALSE, sawAnySectionMarker |-> FALSE, inHeader |-> TRUE,
     currentActivity |-> "NONE", currentLessonLine |-> 0,
     seenHeader |-> [f \in headerFields |-> 0],
     seenVoiceSpeaker |-> <<>>,
     lastDialogueHadLine |-> FALSE, pendingVocabWord |-> 0,
     pendingExercisePrompt |-> 0, pendingExerciseExample |-> 0]

\* push(severity, line, message, code); the message is its fixed text and its arguments
push(st, severity, line, message, code) ==
    [st EXCEPT !.diags = Append(@, [severity |-> severity, line |-> line,
                                    message |-> message, code |-> code])]

pushIf(cond, st, severity, line, message, code) ==
    IF cond THEN push(st, severity, line, message, code) ELSE st

VocabPairMessage == <<"VOCAB must be followed immediately by VOCAB_T (pair).">>

\* the column-0 check on a line that starts with whitespace
LintIndent(st, raw, lineNo) ==
    IF raw.ind \in {"SP", "TAB"}
    THEN IF raw.kind = "marker"
         THEN push(st, "error", lineNo,
                   <<"Section marker must start at column 0 (no leading whitespace).">>,
                   "section-indent")
         ELSE IF raw.kind = "field"
         THEN push(st, "error", lineNo,
                   <<"Field must start at column 0 (no leading whitespace).">>,
                   "field-indent")
         ELSE st
    ELSE st

\* /^\$(LESSON|DIALOGUE|EXERCISE|GRAMMAR|CHAT)\s*:/.test(trimmedEnd)
MarkerHasColon(raw) ==
    /\ raw.name \in {"LESSON", "DIALOGUE", "EXERCISE", "GRAMMAR", "CHAT"}
    /\ \/ raw.sep = "colon"
       \/ raw.sep = "ws" /\ raw.val # <<>> /\ raw.val[1] = ":"

\* LintMarker, were $MODULE to forget the $LESSON marker seen before it
LintMarkerModuleForgets(st, raw, lineNo) ==
    LET s1 == [st EXCEPT !.sawAnySectionMarker = TRUE]
        s2 == pushIf(MarkerHasColon(raw), s1, "error", lineNo,
                     <<"Section markers must not use a colon.">>, "section-colon")
    IN  IF ~MarkerMatches(raw)
        THEN push(s2, "warning", lineNo, <<"Unrecognized section marker format.">>,
                  "section-format")
        ELSE
            LET marker == raw.name
                s3 == pushIf(marker \notin sectionNames, s2, "warning", lineNo,
                             <<"Unknown section marker: $", marker>>, "section-unknown")
                s4 == IF s3.pendingVocabWord # 0
                      THEN [push(s3, "warning", s3.pendingVocabWord, VocabPairMessage,
                                 "vocab-missing-vocab_t") EXCEPT !.pendingVocabWord = 0]
                      ELSE s3
            IN  CASE marker = "MODULE" ->
                        [s4 EXCEPT !.sawModuleMarker = TRUE, !.inHeader = TRUE,
                                   !.currentActivity = "NONE", !.currentLessonLine = 0]
                  [] marker = "LESSON" ->
                        [s4 EXCEPT !.inHeader = FALSE, !.currentActivity = "NONE",
                                   !.currentLessonLine = lineNo]
                  [] marker \in ActivityMarkers ->
                        [pushIf(s4.currentLessonLine = 0, s4, "warning", lineNo,
                                <<"Found activity before any $LESSON: $", marker>>,
                                "implicit-lesson")
                         EXCEPT !.inHeader = FALSE, !.currentActivity = marker,
                                !.lastDialogueHadLine = FALSE, !.pendingVocabWord = 0,
                                !.pendingExercisePrompt = 0, !.pendingExerciseExample = 0]
                  [] OTHER -> s4

\* the "Section markers" branch of the loop
LintMarker(st, raw, lineNo) ==
    LET s1 == [st EXCEPT !.sawAnySectionMarker = TRUE]
        s2 == pushIf(MarkerHasColon(raw), s1, "error", lineNo,
                     <<"Section markers must not use a colon.">>, "section-colon")
    IN  IF ~MarkerMatches(raw)
        THEN push(s2, "warning", lineNo, <<"Unrecognized section marker format.">>,
                  "section-format")
        ELSE
            LET marker == raw.name
                s3 == pushIf(marker \notin sectionNames, s2, "warning", lineNo,
                             <<"Unknown section marker: $", marker>>, "section-unknown")
                s4 == IF s3.pendingVocabWord # 0
                      THEN [push(s3, "warning", s3.pendingVocabWord, VocabPairMessage,
                                 "vocab-missing-vocab_t") EXCEPT !.pendingVocabWord = 0]
                      ELSE s3
            IN  CASE marker = "MODULE" ->
                        [s4 EXCEPT !.sawModuleMarker = TRUE, !.inHeader = TRUE,
                                   !.currentActivity = "NONE"]
                  [] marker = "LESSON" ->
                        [s4 EXCEPT !.inHeader = FALSE, !.currentActivity = "NONE",
                                   !.currentLessonLine = lineNo]
                  [] marker \in ActivityMarkers ->
                        [pushIf(s4.currentLessonLine = 0, s4, "warning", lineNo,
                                <<"Found activity before any $LESSON: $", marker>>,
                                "implicit-lesson")
                         EXCEPT !.inHeader = FALSE, !.currentActivity = marker,
                                !.lastDialogueHadLine = FALSE, !.pendingVocabWord = 0,
                                !.pendingExercisePrompt = 0, !.pendingExerciseExample = 0]
                  [] OTHER -> s4

\* the "EXAMPLE marker" branch: trimmed === "EXAMPLE", leading whitespace trimmed too
LintExample(st, lineNo) ==
    IF st.currentActivity # "EXERCISE"
    THEN push(st, "warning", lineNo,
              <<"EXAMPLE marker is only meaningful inside $EXERCISE.">>,
              "example-outside-exercise")
    ELSE [st EXCEPT !.pendingExerciseExample = lineNo]

\* the raw content branch at the end of the loop body
LintRaw(st, lineNo) ==
    IF st.currentActivity = "GRAMMAR" THEN st
    ELSE IF st.currentActivity \in {"DIALOGUE", "EXERCISE", "CHAT"}
    THEN push(st, "warning", lineNo,
              <<"Unstructured content line inside $", st.currentActivity>>, "raw-content")
    ELSE push(st, "warning", lineNo,
              <<"Content line appears outside any activity; it will be ignored.">>,
              "content-outside")

\* the voice checks of a well-shaped voice name
LintVoiceName(st, voiceName, lineNo) ==
    LET s1 == pushIf(~idNoSpacesRe(voiceName), st, "warning", lineNo,
                     <<"Voice name must be alnum only (no spaces)", voiceName>>,
                     "voice_name")
    IN  pushIf(voiceName \notin VALID_GEMINI_VOICES, s1, "error", lineNo,
               <<"Unknown Gemini voice", voiceName>>, "voice-invalid")

\* LintVoiceSpeaker, were every occurrence of a label to replace the one remembered
LintVoiceSpeakerLatest(st, value, lineNo) ==
    LET s1 == push(st, "warning", lineNo, <<"VOICE_SPEAKER is deprecated">>,
                   "voice_speaker-deprecated")
    IN  IF ~SpeakerMatches(value)
        THEN push(s1, "error", lineNo, <<"VOICE_SPEAKER must be Speaker = Voice">>,
                  "voice_speaker-format")
        ELSE
            LET speakerName == SpeakerNameOf(value)
                voiceName == SpeakerVoiceOf(value).voice
                s2 == pushIf(~idNoSpacesRe(speakerName), s1, "warning", lineNo,
                             <<"VOICE_SPEAKER label must be alnum only", speakerName>>,
                             "voice_speaker-label")
                s3 == LintVoiceName(s2, voiceName, lineNo)
                key == toLowerCase(speakerName)
                hasPrev == key \in DOMAIN s3.seenVoiceSpeaker
                prev == IF hasPrev THEN s3.seenVoiceSpeaker[key]
                        ELSE [line |-> 0, original |-> Null]
                s3b == pushIf(hasPrev, s3, "warning", lineNo,
                              <<"Duplicate VOICE_SPEAKER mapping", prev.original,
                                prev.line>>, "voice_speaker-dup")
                s4 == [s3b EXCEPT !.seenVoiceSpeaker =
                               [k \in (DOMAIN s3.seenVoiceSpeaker) \cup {key} |->
                                   IF k = key
                                   THEN [line |-> lineNo, original |-> speakerName]
                                   ELSE s3.seenVoiceSpeaker[k]]]
            IN  pushIf(hasPrev /\ prev.original # speakerName, s4, "warning", lineNo,
                       <<"VOICE_SPEAKER label casing differs", prev.original, speakerName>>,
                       "voice_speaker-case")

\* if (field === "VOICE_SPEAKER") { ... }
LintVoiceSpeaker(st, value, lineNo) ==
    LET s1 == push(st, "warning", lineNo, <<"VOICE_SPEAKER is deprecated">>,
                   "voice_speaker-deprecated")
    IN  IF ~SpeakerMatches(value)
        THEN push(s1, "error", lineNo, <<"VOICE_SPEAKER must be Speaker = Voice">>,
                  "voice_speaker-format")
        ELSE
            LET speakerName == SpeakerNameOf(value)
                voiceName == SpeakerVoiceOf(value).voice
                s2 == pushIf(~idNoSpacesRe(speakerName), s1, "warning", lineNo,
                             <<"VOICE_SPEAKER label must be alnum only", speakerName>>,
                             "voice_speaker-label")
                s3 == LintVoiceName(s2, voiceName, lineNo)
                key == toLowerCase(speakerName)
                hasPrev == key \in DOMAIN s3.seenVoiceSpeaker
                prev == IF hasPrev THEN s3.seenVoiceSpeaker[key]
                        ELSE [line |-> 0, original |-> Null]
                s4 == IF hasPrev
                      THEN push(s3, "warning", lineNo,
                                <<"Duplicate VOICE_SPEAKER mapping", prev.original,
                                  prev.line>>, "voice_speaker-dup")
                      ELSE [s3 EXCEPT !.seenVoiceSpeaker =
                               [k \in (DOMAIN s3.seenVoiceSpeaker) \cup {key} |->
                                   IF k = key
                                   THEN [line |-> lineNo, original |-> speakerName]
                                   ELSE s3.seenVoiceSpeaker[k]]]
            IN  pushIf(hasPrev /\ prev.original # speakerName, s4, "warning", lineNo,
                       <<"VOICE_SPEAKER label casing differs", prev.original, speakerName>>,
                       "voice_speaker-case")

\* a VOICE check that takes the second segment for the voice name
LintVoiceSecondSegment(st, value, lineNo) ==
    LET parts == TrimmedParts(value)
    IN  IF Len(parts) < 3
        THEN push(st, "error", lineNo, <<"VOICE must be Id | Name | Voice | prompt">>,
                  "voice-format")
        ELSE
            LET s1 == pushIf(~idNoSpacesRe(parts[1]), st, "warning", lineNo,
                             <<"VOICE speakerId must be alnum/_ only", parts[1]>>,
                             "voice-speaker-id")
                s2 == pushIf(parts[2] = <<>>, s1, "warning", lineNo,
                             <<"VOICE display name is empty">>, "voice-display-empty")
            IN  LintVoiceName(s2, parts[2], lineNo)

\* if (field === "VOICE") { ... }
LintVoice(st, value, lineNo) ==
    LET parts == TrimmedParts(value)
    IN  IF Len(parts) < 3
        THEN push(st, "error", lineNo, <<"VOICE must be Id | Name | Voice | prompt">>,
                  "voice-format")
        ELSE
            LET s1 == pushIf(~idNoSpacesRe(parts[1]), st, "warning", lineNo,
                             <<"VOICE speakerId must be alnum/_ only", parts[1]>>,
                             "voice-speaker-id")
                s2 == pushIf(parts[2] = <<>>, s1, "warning", lineNo,
                             <<"VOICE display name is empty">>, "voice-display-empty")
            IN  LintVoiceName(s2, parts[3], lineNo)

\* the header branch of a field line
LintHeaderField(st, field, value, lineNo) ==
    LET s1 == IF field \notin headerFields
              THEN push(st, "warning", lineNo, <<"Unknown header field: ", field>>,
                        "unknown-header-field")
              ELSE IF field \notin {"VOICE_SPEAKER", "VOICE"}
              THEN [pushIf(st.seenHeader[field] # 0, st, "warning", lineNo,
                           <<"Duplicate header field: ", field>>, "dup-header-field")
                    EXCEPT !.seenHeader[field] = lineNo]
              ELSE st
        s2 == IF field = "VOICE_SPEAKER" THEN LintVoiceSpeaker(s1, value, lineNo) ELSE s1
        s3 == IF field = "VOICE" THEN LintVoice(s2, value, lineNo) ELSE s2
    IN  IF field \in voiceFields /\ field \notin {"VOICE_SPEAKER", "VOICE"}
           /\ VoiceMatches(value)
        THEN LintVoiceName(s3, VoiceSpecOf(value).voice, lineNo)
        ELSE s3

AllowedFields(activity) ==
    CASE activity = "DIALOGUE" -> dialogueFields
      [] activity = "EXERCISE" -> exerciseFields
      [] activity = "CHAT"     -> chatFields
      [] activity = "GRAMMAR"  -> grammarFields

\* the branch of a field line inside an activity
LintActivityField(st, field, lineNo) ==
    LET s1 == IF field \notin AllowedFields(st.currentActivity)
              THEN IF st.currentActivity = "GRAMMAR" /\ field = "IMAGE"
                   THEN push(st, "warning", lineNo,
                             <<"IMAGE inside $GRAMMAR is ignored by lc_parser.">>,
                             "grammar-image-ignored")
                   ELSE push(st, "warning", lineNo,
                             <<"Field is not expected inside activity", field,
                               st.currentActivity>>, "field-unexpected")
              ELSE st
    IN  pushIf(st.currentActivity = "GRAMMAR" /\ field # "INTRO", s1, "warning", lineNo,
               <<"Line looks like a field inside $GRAMMAR", field>>,
               "grammar-field-swallowed")

\* the branch of a field line outside the header and outside any activity
LintOutsideField(st, field, lineNo) ==
    IF ~st.sawModuleMarker /\ field \in headerFields
    THEN push(st, "warning", lineNo, <<"Header field appears before $MODULE", field>>,
              "header-before-module")
    ELSE push(st, "warning", lineNo, <<"Field appears outside an activity", field>>,
              "field-outside-activity")

\* LintDialogueStructure, were a SPEAKER tag to leave a pending VOCAB alone
LintDialogueStructureLineOnly(st, field, lineNo) ==
    LET s1 == IF field = "LINE" THEN [st EXCEPT !.lastDialogueHadLine = TRUE] ELSE st
        s2 == pushIf(field = "LINE_T" /\ ~s1.lastDialogueHadLine, s1, "warning", lineNo,
                     <<"LINE_T appears without a preceding LINE.">>, "line_t-without-line")
        s3 == IF field = "VOCAB"
              THEN [pushIf(s2.pendingVocabWord # 0, s2, "warning", s2.pendingVocabWord,
                           VocabPairMessage, "vocab-missing-vocab_t")
                    EXCEPT !.pendingVocabWord = lineNo]
              ELSE s2
        s4 == pushIf(field = "VOCAB_T" /\ s3.pendingVocabWord = 0, s3, "warning", lineNo,
                     <<"VOCAB_T appears without a preceding VOCAB.">>,
                     "vocab_t-without-vocab")
        s5 == IF field = "VOCAB_T" THEN [s4 EXCEPT !.pendingVocabWord = 0] ELSE s4
    IN  IF field \in {"LINE"} /\ s5.pendingVocabWord # 0
        THEN [push(s5, "warning", s5.pendingVocabWord, VocabPairMessage,
                   "vocab-missing-vocab_t") EXCEPT !.pendingVocabWord = 0]
        ELSE s5

\* "Structural checks" of a field line inside a dialogue
LintDialogueStructure(st, field, lineNo) ==
    LET s1 == IF field = "LINE" THEN [st EXCEPT !.lastDialogueHadLine = TRUE] ELSE st
        s2 == pushIf(field = "LINE_T" /\ ~s1.lastDialogueHadLine, s1, "warning", lineNo,
                     <<"LINE_T appears without a preceding LINE.">>, "line_t-without-line")
        s3 == IF field = "VOCAB"
              THEN [pushIf(s2.pendingVocabWord # 0, s2, "warning", s2.pendingVocabWord,
                           VocabPairMessage, "vocab-missing-vocab_t")
                    EXCEPT !.pendingVocabWord = lineNo]
              ELSE s2
        s4 == pushIf(field = "VOCAB_T" /\ s3.pendingVocabWord = 0, s3, "warning", lineNo,
                     <<"VOCAB_T appears without a preceding VOCAB.">>,
                     "vocab_t-without-vocab")
        s5 == IF field = "VOCAB_T" THEN [s4 EXCEPT !.pendingVocabWord = 0] ELSE s4
    IN  IF field \in {"SPEAKER", "LINE"} /\ s5.pendingVocabWord # 0
        THEN [push(s5, "warning", s5.pendingVocabWord, VocabPairMessage,
                   "vocab-missing-vocab_t") EXCEPT !.pendingVocabWord = 0]
        ELSE s5

\* LintExerciseStructure, were a RESPONSE tag to leave the pending PROMPT alone
LintExerciseStructureKeepsPrompt(st, field, value, lineNo) ==
    LET s1 == IF field = "PROMPT" THEN [st EXCEPT !.pendingExercisePrompt = lineNo] ELSE st
        s2 == pushIf(field = "RESPONSE" /\ s1.pendingExercisePrompt = 0, s1, "warning",
                     lineNo, <<"RESPONSE appears before PROMPT.">>, "response-before-prompt")
        s3 == pushIf(field = "PROMPT" /\ value = <<>>, s2, "warning", lineNo,
                     <<"PROMPT is empty.">>, "empty-prompt")
        s4 == pushIf(field = "RESPONSE" /\ value = <<>>, s3, "warning", lineNo,
                     <<"RESPONSE is empty.">>, "empty-response")
        s5 == s4
    IN  IF field = "PROMPT" /\ s5.pendingExerciseExample # 0
        THEN [s5 EXCEPT !.pendingExerciseExample = 0]
        ELSE s5

\* "Structural checks" of a field line inside an exercise
LintExerciseStructure(st, field, value, lineNo) ==
    LET s1 == IF field = "PROMPT" THEN [st EXCEPT !.pendingExercisePrompt = lineNo] ELSE st
        s2 == pushIf(field = "RESPONSE" /\ s1.pendingExercisePrompt = 0, s1, "warning",
                     lineNo, <<"RESPONSE appears before PROMPT.">>, "response-before-prompt")
        s3 == pushIf(field = "PROMPT" /\ value = <<>>, s2, "warning", lineNo,
                     <<"PROMPT is empty.">>, "empty-prompt")
        s4 == pushIf(field = "RESPONSE" /\ value = <<>>, s3, "warning", lineNo,
                     <<"RESPONSE is empty.">>, "empty-response")
        s5 == IF field = "RESPONSE" THEN [s4 EXCEPT !.pendingExercisePrompt = 0] ELSE s4
    IN  IF field = "PROMPT" /\ s5.pendingExerciseExample # 0
        THEN [s5 EXCEPT !.pendingExerciseExample = 0]
        ELSE s5

\* the "Field lines" branch of the loop
LintField(st, field, value, lineNo) ==
    LET s1 == IF st.inHeader /\ st.currentLessonLine = 0 /\ st.currentActivity = "NONE"
              THEN LintHeaderField(st, field, value, lineNo)
              ELSE IF st.currentActivity # "NONE"
              THEN LintActivityField(st, field, lineNo)
              ELSE LintOutsideField(st, field, lineNo)
    IN  IF s1.currentActivity = "DIALOGUE" THEN LintDialogueStructure(s1, field, lineNo)
        ELSE IF s1.currentActivity = "EXERCISE"
        THEN LintExerciseStructure(s1, field, value, lineNo)
        ELSE s1

\* one iteration of the loop of lintModuleText, on line lineNo (1-based)
LintLine(st, raw, lineNo) ==
    IF raw.kind = "blank" \/ raw.kind = "comment" THEN st
    ELSE
        LET s1 == LintIndent(st, raw, lineNo)
        IN  IF StartsWithDollar(raw) THEN LintMarker(s1, raw, lineNo)
            ELSE IF raw.kind = "example" THEN LintExample(s1, lineNo)
            ELSE IF FieldMatches(raw) THEN LintField(s1, raw.name, Trim(raw.val), lineNo)
            ELSE LintRaw(s1, lineNo)

\* a comparator that orders by line alone
CompareDiagsByLine(a, b) == a.line - b.line

\* the comparator handed to diags.sort
CompareDiags(a, b) ==
    IF a.severity = b.severity THEN a.line - b.line
    ELSE IF a.severity = "error" THEN -1 ELSE 1

\* Array.prototype.sort is stable: an entry goes behind the entries that do not
\* compare greater than it
RECURSIVE InsertDiag(_, _)
InsertDiag(sorted, d) ==
    IF sorted = <<>> THEN <<d>>
    ELSE IF CompareDiags(Head(sorted), d) > 0 THEN <<d>> \o sorted
    ELSE <<Head(sorted)>> \o InsertDiag(Tail(sorted), d)

RECURSIVE SortInto(_, _)
SortInto(sorted, rest) ==
    IF rest = <<>> THEN sorted
    ELSE SortInto(InsertDiag(sorted, Head(rest)), Tail(rest))

sortDiags(diags) == SortInto(<<>>, diags)

\* end checks that take only HOME_LANG_G for the home language
LintEndChecksHomeOnly(st) ==
    LET s1 == pushIf(st.pendingVocabWord # 0, st, "warning", st.pendingVocabWord,
                     VocabPairMessage, "vocab-missing-vocab_t")
        s2 == pushIf(s1.pendingExerciseExample # 0, s1, "warning",
                     s1.pendingExerciseExample,
                     <<"EXAMPLE marker must be immediately followed by an exercise item.">>,
                     "example-not-applied")
        s3 == pushIf(~s2.sawAnySectionMarker, s2, "error", 1,
                     <<"No section markers found.">>, "no-sections")
        s4 == pushIf(~s3.sawModuleMarker, s3, "error", 1,
                     <<"Missing $MODULE header.">>, "missing-module")
    IN  IF ~s4.sawModuleMarker THEN s4
        ELSE
            LET s5 == pushIf(s4.seenHeader["DIOCO_DOC_ID"] = 0, s4, "error", 1,
                             <<"Missing required header field: DIOCO_DOC_ID">>,
                             "missing-dioco-doc-id")
                s6 == pushIf(s5.seenHeader["TITLE"] = 0, s5, "error", 1,
                             <<"Missing required header field: TITLE">>, "missing-title")
                s7 == pushIf(s6.seenHeader["TARGET_LANG_G"] = 0, s6, "error", 1,
                             <<"Missing required header field: TARGET_LANG_G">>,
                             "missing-target-lang")
            IN  pushIf(s7.seenHeader["HOME_LANG_G"] = 0, s7, "error", 1,
                       <<"Missing required header field: HOME_LANG_G">>,
                       "missing-home-lang")

\* after the loop: pending pairs, required header fields
LintEndChecks(st) ==
    LET s1 == pushIf(st.pendingVocabWord # 0, st, "warning", st.pendingVocabWord,
                     VocabPairMessage, "vocab-missing-vocab_t")
        s2 == pushIf(s1.pendingExerciseExample # 0, s1, "warning",
                     s1.pendingExerciseExample,
                     <<"EXAMPLE marker must be immediately followed by an exercise item.">>,
                     "example-not-applied")
        s3 == pushIf(~s2.sawAnySectionMarker, s2, "error", 1,
                     <<"No section markers found.">>, "no-sections")
        s4 == pushIf(~s3.sawModuleMarker, s3, "error", 1,
                     <<"Missing $MODULE header.">>, "missing-module")
    IN  IF ~s4.sawModuleMarker THEN s4
        ELSE
            LET s5 == pushIf(s4.seenHeader["DIOCO_DOC_ID"] = 0, s4, "error", 1,
                             <<"Missing required header field: DIOCO_DOC_ID">>,
                             "missing-dioco-doc-id")
                s6 == pushIf(s5.seenHeader["TITLE"] = 0, s5, "error", 1,
                             <<"Missing required header field: TITLE">>, "missing-title")
                s7 == pushIf(s6.seenHeader["TARGET_LANG_G"] = 0, s6, "error", 1,
                             <<"Missing required header field: TARGET_LANG_G">>,
                             "missing-target-lang")
            IN  pushIf(s7.seenHeader["HOME_LANG_G"] = 0 /\ s7.seenHeader["USER_LANG_G"] = 0,
                       s7, "error", 1,
                       <<"Missing required header field: HOME_LANG_G (or legacy USER_LANG_G)">>,
                       "missing-home-lang")

\* an end of lintModuleText that reads the line of the pending vocabulary word
\* without testing that there is one
lintModuleTextEndUnguarded(st) ==
    sortDiags(push(LintEndChecks(st), "warning", st.pendingVocabWord, VocabPairMessage,
                   "vocab-missing-vocab_t").diags)

\* the end of lintModuleText: the list it returns
lintModuleTextEnd(st) == sortDiags(LintEndChecks(st).diags)

-----------------------------------------------------------------------------
(* Course parser: parseCourseFile *)

\* const result: Partial<Course> = {}
NewCourseResult ==
    [diocoPlaylistId |-> Undefined, title |-> Undefined, description |-> Undefined,
     image |-> Undefined, targetLang_G |-> Undefined, homeLang_G |-> Undefined]

\* a line written NAME : value, which only a pass that cuts at the first colon
\* reads as a field
SpacedField(name, val) == Ln("", "raw", name, "colon", val)

\* trimmed.slice(0, colonIndex).trim() of a line whose first colon is not its
\* first character; "" when the text before the colon is no field of the switch
CourseFieldName(l) ==
    IF l.kind = "field" \/ (l.kind = "raw" /\ l.sep = "colon") THEN l.name ELSE ""

\* a course parser in which USER_LANG_G has a slot of its own, never validated
CourseLineHomeOnly(r, l) ==
    LET field == CourseFieldName(l)
        value == Trim(l.val)
    IN  IF l.kind \in {"blank", "comment"} THEN r
        ELSE IF field = "DIOCO_PLAYLIST_ID" THEN [r EXCEPT !.diocoPlaylistId = value]
        ELSE IF field = "TITLE" THEN [r EXCEPT !.title = value]
        ELSE IF field = "DESCRIPTION" THEN [r EXCEPT !.description = value]
        ELSE IF field = "IMAGE" THEN [r EXCEPT !.image = value]
        ELSE IF field = "TARGET_LANG_G" THEN [r EXCEPT !.targetLang_G = value]
        ELSE IF field = "HOME_LANG_G" THEN [r EXCEPT !.homeLang_G = value]
        ELSE r

\* body of the for loop: line.trim(), then blank and comment lines and the
\* $COURSE marker are skipped, then the switch over the text before the colon
CourseLine(r, l) ==
    LET field == CourseFieldName(l)
        value == Trim(l.val)
    IN  IF l.kind \in {"blank", "comment"} THEN r
        ELSE IF field = "DIOCO_PLAYLIST_ID" THEN [r EXCEPT !.diocoPlaylistId = value]
        ELSE IF field = "TITLE" THEN [r EXCEPT !.title = value]
        ELSE IF field = "DESCRIPTION" THEN [r EXCEPT !.description = value]
        ELSE IF field = "IMAGE" THEN [r EXCEPT !.image = value]
        ELSE IF field = "TARGET_LANG_G" THEN [r EXCEPT !.targetLang_G = value]
        ELSE IF field \in {"HOME_LANG_G", "USER_LANG_G"}
             THEN [r EXCEPT !.homeLang_G = value]
        ELSE r

RECURSIVE CourseOver(_, _)
\* for (const line of lines)
CourseOver(r, block) ==
    IF block = <<>> THEN r ELSE CourseOver(CourseLine(r, Head(block)), Tail(block))

NoCourse ==
    [diocoPlaylistId |-> Null, title |-> Null, description |-> Null, image |-> Null,
     targetLang_G |-> Null, homeLang_G |-> Null]

CourseNotReturned == [ok |-> FALSE, error |-> "", course |-> NoCourse]

CourseThrown(message) == [ok |-> FALSE, error |-> message, course |-> NoCourse]

\* the validation after the loop and the returned Course
parseCourseFileEnd(r) ==
    IF ~Truthy(r.diocoPlaylistId)
    THEN CourseThrown("Missing DIOCO_PLAYLIST_ID in .course file")
    ELSE IF ~Truthy(r.title) THEN CourseThrown("Missing TITLE in .course file")
    ELSE IF ~Truthy(r.targetLang_G)
         THEN CourseThrown("Missing TARGET_LANG_G in .course file")
    ELSE IF ~Truthy(r.homeLang_G)
         THEN CourseThrown("Missing HOME_LANG_G in .course file")
    ELSE [ok |-> TRUE, error |-> "",
          course |-> [diocoPlaylistId |-> r.diocoPlaylistId, title |-> r.title,
                      description |-> OrElse(r.description, <<>>),
                      image |-> OrElse(r.image, Null),
                      targetLang_G |-> r.targetLang_G, homeLang_G |-> r.homeLang_G]]

-----------------------------------------------------------------------------
(* Course converter: convertCourse and ProgressTracker *)

\* before convertCourse runs
NotConverting ==
    [pc |-> "idle", inputFiles |-> <<>>, i |-> 0, outputs |-> {}, existing |-> {},
     calls |-> <<>>, saved |-> <<>>, errorFiles |-> {},
     success |-> 0, error |-> 0, skipped |-> 0]

\* convertCourse up to the loop: the input files are listed, the outputs that
\* exist are those of an earlier run, new ProgressTracker(inputFiles.length)
StartConvert(inputFiles, existing) ==
    /\ conv.pc = "idle"
    /\ conv' = [NotConverting EXCEPT
                    !.pc = IF inputFiles = <<>> THEN "returned" ELSE "loop",
                    !.inputFiles = inputFiles,
                    !.outputs = existing,
                    !.existing = existing]
    /\ UNCHANGED textVars

\* one iteration of the for loop, on inputFiles[i]: skip when the output
\* exists; else read, call the API and save inside try; in the catch block
\* write the error file, then count the error.  A throw out of the catch
\* block leaves the loop and rejects the promise of convertCourse
IterationOf(c, outcome, errorWritten) ==
    LET filename == c.inputFiles[c.i + 1]
        next == [c EXCEPT !.i = @ + 1]
        caught == IF errorWritten
                  THEN [next EXCEPT !.error = @ + 1,
                                    !.errorFiles = @ \cup {filename}]
                  ELSE [c EXCEPT !.pc = "rejected"]
    IN  IF filename \in c.outputs THEN [next EXCEPT !.skipped = @ + 1]
        ELSE CASE outcome = "readFails" -> caught
               [] outcome = "apiFails" ->
                     [caught EXCEPT !.calls = Append(@, filename)]
               [] outcome = "writeFails" ->
                     [caught EXCEPT !.calls = Append(@, filename)]
               [] OTHER ->
                     [next EXCEPT !.calls = Append(@, filename),
                                  !.saved = Append(@, filename),
                                  !.outputs = @ \cup {filename},
                                  !.success = @ + 1]

Outcomes == {"saved", "readFails", "apiFails", "writeFails"}

Iterate(outcome, errorWritten) ==
    /\ conv.pc = "loop"
    /\ conv.i < Len(conv.inputFiles)
    /\ conv' = IterationOf(conv, outcome, errorWritten)
    /\ UNCHANGED textVars

\* the loop has ended: progress.printSummary and return
PrintSummary ==
    /\ conv.pc = "loop"
    /\ conv.i = Len(conv.inputFiles)
    /\ conv' = [conv EXCEPT !.pc = "returned"]
    /\ UNCHANGED textVars

-----------------------------------------------------------------------------
(* The state machine: one text read line by line by the four passes   *)

RECURSIVE ParseOver(_, _)
ParseOver(state, lines) ==
    IF lines = <<>> THEN state
    ELSE ParseOver(processLine(state, Head(lines)), Tail(lines))

\* lint the lines numbered from + 1, from + 2, ...
RECURSIVE LintOver(_, _, _)
LintOver(st, lines, from) ==
    IF lines = <<>> THEN st
    ELSE LintOver(LintLine(st, Head(lines), from + 1), Tail(lines), from + 1)

\* index lines[from + 1 .. Len(lines)] of the whole text lines
RECURSIVE IndexOver(_, _, _)
IndexOver(st, lines, from) ==
    IF from >= Len(lines) THEN st
    ELSE IndexOver(IndexLine(st, lines, from), lines, from + 1)

\* a linter whose seenHeader table outlives the call
lintModuleTextStartKeepHeader(previous) ==
    [NewLintState EXCEPT !.seenHeader = previous.seenHeader]

\* lintModuleText allocates its locals anew in every call
lintModuleTextStart(previous) == NewLintState

NoRef == [set |-> FALSE, text |-> <<>>, diagnostics |-> <<>>]

Init ==
    /\ text = <<>>
    /\ pst = NewParserState
    /\ lst = NewLintState
    /\ ist = NewIndexState
    /\ phase = "reading"
    /\ result = NotReturned
    /\ diagnostics = <<>>
    /\ rawIndex = <<>>
    /\ cst = NewCourseResult
    /\ course = CourseNotReturned
    /\ conv = NotConverting
    /\ ref = NoRef

\* the loops of the passes consume the next lines of the text
ReadLines(block) ==
    /\ phase = "reading"
    /\ text' = text \o block
    /\ pst' = ParseOver(pst, block)
    /\ lst' = LintOver(lst, block, Len(text))
    /\ ist' = IndexOver(ist, text \o block, Len(text))
    /\ cst' = CourseOver(cst, block)
    /\ UNCHANGED <<phase, result, diagnostics, rawIndex, course, conv, ref>>

ReadLine(line) == ReadLines(<<line>>)

\* the text ends (split("\n") yields at least one line): each pass runs the code
\* after its loop and returns
EndOfInput ==
    /\ phase = "reading"
    /\ Len(text) >= 1
    /\ phase' = "done"
    /\ pst' = finalizeLesson(finalizeActivity(pst))
    /\ result' = parseModuleEnd(pst)
    /\ diagnostics' = lintModuleTextEnd(lst)
    /\ rawIndex' = buildActivityRawIndexEnd(ist, text)
    /\ course' = parseCourseFileEnd(cst)
    /\ UNCHANGED <<text, lst, ist, cst, conv, ref>>

\* another text is loaded: the three passes start again; the first completed
\* lint call is remembered
NewCall ==
    /\ phase = "done"
    /\ phase' = "reading"
    /\ text' = <<>>
    /\ pst' = NewParserState
    /\ lst' = lintModuleTextStart(lst)
    /\ ist' = NewIndexState
    /\ result' = NotReturned
    /\ diagnostics' = <<>>
    /\ rawIndex' = <<>>
    /\ cst' = NewCourseResult
    /\ course' = CourseNotReturned
    /\ UNCHANGED conv
    /\ ref' = IF ref.set THEN ref
              ELSE [set |-> TRUE, text |-> text, diagnostics |-> diagnostics]

-----------------------------------------------------------------------------
(* Inputs *)

X == <<"x">>

Y == <<"y">>

CompleteHeader ==
    <<Field("DIOCO_DOC_ID", X), Field("TITLE", X), Field("TARGET_LANG_G", X),
      Field("HOME_LANG_G", X)>>

-----------------------------------------------------------------------------
(* Header validation *)

MaxHeaderLines == 4

HeaderLines ==
    {Field("DIOCO_DOC_ID", X), Field("TITLE", X), Field("TITLE", <<>>),
     Field("TARGET_LANG_G", X), Field("HOME_LANG_G", X), Field("USER_LANG_G", X),
     Field("USER_LANG_G", <<>>), Marker("LESSON"), Indented("SP", Field("TITLE", X))}

NextHeader ==
    \/ \E l \in HeaderLines : Len(text) < MaxHeaderLines /\ ReadLine(l)
    \/ EndOfInput

SpecHeader == Init /\ [][NextHeader]_vars

\* a column-0 marker line that opens a lesson or an activity
OpensSection(l) ==
    StartsWithDollar(l) /\ MarkerMatches(l) /\ l.name \in {"LESSON"} \cup ActivityMarkers

\* the number of lines before the first lesson or activity marker: the header
HeaderLen(t) ==
    IF \E i \in 1..Len(t) : OpensSection(t[i])
    THEN (CHOOSE i \in 1..Len(t) :
            OpensSection(t[i]) /\ \A j \in 1..(i - 1) : ~OpensSection(t[j])) - 1
    ELSE Len(t)

\* the header's column-0 field lines with one of the names
HeaderSetters(t, names) ==
    {i \in 1..HeaderLen(t) : t[i].ind = "" /\ t[i].kind = "field" /\ t[i].name \in names}

\* the header gives no value for the names: no such line, or the last one is empty
HeaderLacks(t, names) ==
    LET S == HeaderSetters(t, names)
    IN  S = {} \/ t[CHOOSE i \in S : \A j \in S : j <= i].val = <<>>

MandatoryFields ==
    <<{"DIOCO_DOC_ID"}, {"TITLE"}, {"TARGET_LANG_G"}, {"HOME_LANG_G", "USER_LANG_G"}>>

MissingMessage ==
    <<"Missing DIOCO_DOC_ID in .module file", "Missing TITLE in .module file",
      "Missing TARGET_LANG_G in .module file", "Missing HOME_LANG_G in .module file">>

LackingFields(t) == {k \in 1..4 : HeaderLacks(t, MandatoryFields[k])}

\* C2: when the header lacks mandatory fields, parseModuleFile throws the error
\* that names the first lacking one in the order DIOCO_DOC_ID, TITLE,
\* TARGET_LANG_G, home language, and returns no Module (a field whose last header
\* line has an empty value counts as lacking)
C2_MissingFieldNamed ==
    (phase = "done" /\ LackingFields(text) # {}) =>
        LET first == CHOOSE k \in LackingFields(text) :
                        \A j \in LackingFields(text) : k <= j
        IN  result = Thrown(MissingMessage[first])

\* exactly TITLE is lacking and the error names TITLE
C2_Witness ==
    /\ phase = "done"
    /\ LackingFields(text) = {2}
    /\ ~result.ok
    /\ result.error = "Missing TITLE in .module file"

-----------------------------------------------------------------------------
(* Lessons *)

MaxLessonLines == 4

A == <<"A">>

B == <<"B">>

LessonLines ==
    {Marker("LESSON"), MarkerT("LESSON", A), MarkerT("LESSON", B),
     MarkerColon("LESSON", A), Indented("SP", MarkerT("LESSON", A)),
     Marker("DIALOGUE"), Marker("MODULE"), Field("LINE", X), Field("TITLE", <<>>)}

NextLessons ==
    \/ text = <<>> /\ ReadLines(CompleteHeader)
    \/ \E l \in LessonLines :
          /\ text # <<>>
          /\ Len(text) < Len(CompleteHeader) + MaxLessonLines
          /\ ReadLine(l)
    \/ EndOfInput

SpecLessons == Init /\ [][NextLessons]_vars

\* a column-0 $LESSON marker: `$LESSON` or `$LESSON Title`
IsLessonMarker(l) == StartsWithDollar(l) /\ MarkerMatches(l) /\ l.name = "LESSON"

IsActivityMarker(l) ==
    StartsWithDollar(l) /\ MarkerMatches(l) /\ l.name \in ActivityMarkers

\* every activity marker is preceded by a $LESSON marker
ActivitiesFollowLesson(t) ==
    \A i \in 1..Len(t) :
        IsActivityMarker(t[i]) => \E j \in 1..(i - 1) : IsLessonMarker(t[j])

\* the titles the $LESSON markers of the text give, in source order
LessonMarkerTitles(t) ==
    LET marks == SelectSeq(t, IsLessonMarker)
    IN  [i \in 1..Len(marks) |->
            IF marks[i].sep = "ws" THEN marks[i].val ELSE UntitledLessonText]

\* C1: with a complete header and no activity before the first $LESSON marker,
\* parseModuleFile returns a Module whose lessons are, one for one and in source
\* order, the column-0 $LESSON markers of the text
C1_LessonPerMarker ==
    (phase = "done" /\ LackingFields(text) = {} /\ ActivitiesFollowLesson(text)) =>
        /\ result.ok
        /\ Len(result.module.lessons) = Len(LessonMarkerTitles(text))
        /\ \A i \in 1..Len(result.module.lessons) :
              result.module.lessons[i].title = LessonMarkerTitles(text)[i]

\* three lessons, an empty one first and an activity in the second
C1_Witness ==
    /\ phase = "done"
    /\ LackingFields(text) = {}
    /\ ActivitiesFollowLesson(text)
    /\ result.ok
    /\ Len(result.module.lessons) = 3
    /\ result.module.lessons[1].title = B
    /\ result.module.lessons[2].title = A
    /\ Len(result.module.lessons[2].activities) = 1
    /\ result.module.lessons[3].title = UntitledLessonText

-----------------------------------------------------------------------------
(* Dialogue content *)

MaxDialogueLines == 5

DialogueOpening == CompleteHeader \o <<Marker("LESSON"), Marker("DIALOGUE")>>

DialogueBodyLines ==
    {Field("VOCAB", X), Field("VOCAB", Y), Field("VOCAB_T", A), Field("VOCAB_T", B),
     Field("LINE", X), Field("SPEAKER", A), Indented("SP", Field("VOCAB", X))}

NextDialogue ==
    \/ text = <<>> /\ ReadLines(DialogueOpening)
    \/ \E l \in DialogueBodyLines :
          /\ text # <<>>
          /\ Len(text) < Len(DialogueOpening) + MaxDialogueLines
          /\ ReadLine(l)
    \/ EndOfInput

SpecDialogue == Init /\ [][NextDialogue]_vars

\* the locals of parseDialogueLines after the first n items of the buffer
DialogueAfter(buffer, n) == DialogueLoop(NewDialogueState, SubSeq(buffer, 1, n))

\* the buffer with the items at i and i + 1 exchanged
Exchanged(buffer, i) ==
    [k \in 1..Len(buffer) |->
        IF k = i THEN buffer[i + 1] ELSE IF k = i + 1 THEN buffer[i] ELSE buffer[k]]

\* items i and i + 1 are one VOCAB and one VOCAB_T, in either order, nothing is
\* pending before them and the line (SPEAKER or LINE) follows at once
SinglePairAt(buffer, i) ==
    /\ i + 2 <= Len(buffer)
    /\ {buffer[i].tag, buffer[i + 1].tag} = {"VOCAB", "VOCAB_T"}
    /\ buffer[i + 2].tag \in {"SPEAKER", "LINE"}
    /\ DialogueAfter(buffer, i - 1).pendingVocab = <<>>

PairWord(buffer, i) == IF buffer[i].tag = "VOCAB" THEN buffer[i].val ELSE buffer[i + 1].val

PairDefinition(buffer, i) ==
    IF buffer[i].tag = "VOCAB_T" THEN buffer[i].val ELSE buffer[i + 1].val

\* C3: a single VOCAB w and VOCAB_T d before a line put the pair (w, d), and
\* nothing else, on that line whichever of the two tags comes first, and the
\* dialogue parsed from the buffer is the same in both orders
C3_VocabPairEitherOrder ==
    pst.currentActivity.type = "DIALOGUE" =>
        LET buffer == pst.activityContentBuffer
        IN  \A i \in 1..Len(buffer) :
                SinglePairAt(buffer, i) =>
                    LET pair == <<[word |-> PairWord(buffer, i),
                                   definition |-> PairDefinition(buffer, i)]>>
                    IN  /\ DialogueAfter(buffer, i + 2).currentLine.vocab = pair
                        /\ DialogueAfter(Exchanged(buffer, i), i + 2).currentLine.vocab = pair
                        /\ parseDialogueLines(Exchanged(buffer, i)) = parseDialogueLines(buffer)

\* VOCAB_T A, VOCAB x, LINE x: the returned dialogue line carries (x, A)
C3_Witness ==
    /\ phase = "done"
    /\ result.ok
    /\ text = DialogueOpening \o <<Field("VOCAB_T", A), Field("VOCAB", X), Field("LINE", X)>>
    /\ result.module.lessons[1].activities[1].lines[1].vocab = <<[word |-> X, definition |-> A]>>

\* C4 (as claimed): a VOCAB_T tag arriving when the last pending entry already
\* has a definition leaves the pending entries as they are and is held for the
\* next VOCAB tag
C4_PairedEntryKept ==
    pst.currentActivity.type = "DIALOGUE" =>
        LET buffer == pst.activityContentBuffer
        IN  \A k \in 1..Len(buffer) :
                LET before == DialogueAfter(buffer, k - 1)
                    after  == DialogueAfter(buffer, k)
                IN  (/\ buffer[k].tag = "VOCAB_T"
                     /\ before.pendingVocab # <<>>
                     /\ before.pendingVocab[Len(before.pendingVocab)].definition # <<>>)
                    => /\ after.pendingVocab = before.pendingVocab
                       /\ after.pendingVocabDefinition = buffer[k].val

\* VOCAB_T A, VOCAB x, VOCAB_T B, VOCAB y, LINE x: the line carries (x, B) and
\* (y, ""), the definition A is lost
C4_Witness ==
    /\ phase = "done"
    /\ text = DialogueOpening \o <<Field("VOCAB_T", A), Field("VOCAB", X), Field("VOCAB_T", B),
                                   Field("VOCAB", Y), Field("LINE", X)>>
    /\ result.module.lessons[1].activities[1].lines[1].vocab =
          <<[word |-> X, definition |-> B], [word |-> Y, definition |-> <<>>]>>

-----------------------------------------------------------------------------
(* Exercise content *)

MaxExerciseLines == 5

ExerciseOpening == CompleteHeader \o <<Marker("LESSON"), Marker("EXERCISE")>>

ExerciseBodyLines ==
    {Example, Indented("SP", Example), Field("PROMPT", A), Field("PROMPT", <<>>),
     Field("RESPONSE", B), Field("RESPONSE", <<>>)}

NextExercise ==
    \/ text = <<>> /\ ReadLines(ExerciseOpening)
    \/ \E l \in ExerciseBodyLines :
          /\ text # <<>>
          /\ Len(text) < Len(ExerciseOpening) + MaxExerciseLines
          /\ ReadLine(l)
    \/ EndOfInput

SpecExercise == Init /\ [][NextExercise]_vars

IsPromptTag(l) == FieldMatches(l) /\ l.name = "PROMPT"

IsResponseTag(l) == FieldMatches(l) /\ l.name = "RESPONSE"

\* the last line of the item the PROMPT tag at p opens
ItemEnd(t, p) ==
    IF \E q \in (p + 1)..Len(t) : IsPromptTag(t[q])
    THEN (CHOOSE q \in (p + 1)..Len(t) :
             IsPromptTag(t[q]) /\ \A r \in (p + 1)..(q - 1) : ~IsPromptTag(t[r])) - 1
    ELSE Len(t)

\* the PROMPT tag before p, or 0
PreviousPrompt(t, p) ==
    IF \E q \in 1..(p - 1) : IsPromptTag(t[q])
    THEN CHOOSE q \in 1..(p - 1) :
             IsPromptTag(t[q]) /\ \A r \in (q + 1)..(p - 1) : ~IsPromptTag(t[r])
    ELSE 0

\* the PROMPT tag at p gives an emitted item: it has a prompt and, by the next
\* PROMPT tag, a response
ItemEmitted(t, p) ==
    /\ IsPromptTag(t[p])
    /\ t[p].val # <<>>
    /\ \E j \in (p + 1)..ItemEnd(t, p) :
          /\ IsResponseTag(t[j])
          /\ t[j].val # <<>>
          /\ \A r \in (j + 1)..ItemEnd(t, p) : ~IsResponseTag(t[r])

\* an EXAMPLE token stands after the previous PROMPT tag and before the one at p
ExampleBefore(t, p) ==
    \E e \in (PreviousPrompt(t, p) + 1)..(p - 1) : IsExampleAtCol0(t[e])

\* the positions of the PROMPT tags of the emitted items, in order
EmittedPrompts(t) ==
    SelectSeq([i \in 1..Len(t) |-> i], LAMBDA i : ItemEmitted(t, i))

\* C5: the items of an Exercise are the completed prompt/response pairs in
\* order, and an item is an example exactly when an EXAMPLE token stands between
\* the previous PROMPT tag (or the start of the activity) and the item's own
C5_ExampleScopesNextPrompt ==
    (phase = "done" /\ Len(text) >= Len(ExerciseOpening)
        /\ SubSeq(text, 1, Len(ExerciseOpening)) = ExerciseOpening) =>
        LET items == result.module.lessons[1].activities[1].items
            at    == EmittedPrompts(text)
        IN  /\ Len(items) = Len(at)
            /\ \A k \in 1..Len(items) :
                  /\ items[k].isExample = ExampleBefore(text, at[k])
                  /\ items[k].prompt = text[at[k]].val

\* EXAMPLE, PROMPT, RESPONSE, PROMPT, RESPONSE: the first item is an example,
\* the second is not
C5_Witness ==
    /\ phase = "done"
    /\ text = ExerciseOpening \o <<Example, Field("PROMPT", A), Field("RESPONSE", B),
                                   Field("PROMPT", A), Field("RESPONSE", B)>>
    /\ Len(result.module.lessons[1].activities[1].items) = 2
    /\ result.module.lessons[1].activities[1].items[1].isExample
    /\ ~result.module.lessons[1].activities[1].items[2].isExample

-----------------------------------------------------------------------------
(* Linting any text *)

MaxLintLines == 4

LintLines ==
    {Marker("MODULE"), Marker("DIALOGUE"), MarkerColon("LESSON", A), Field("TITLE", X),
     Field("VOCAB", X), Field("LINE", X), Indented("SP", Field("LINE", X))}

NextLint ==
    \/ \E l \in LintLines : Len(text) < MaxLintLines /\ ReadLine(l)
    \/ EndOfInput

SpecLint == Init /\ [][NextLint]_vars

\* C6: in the list lintModuleText returns no warning stands before an error,
\* and two diagnostics of one severity stand in non-decreasing line order
C6_SeverityThenLine ==
    phase = "done" =>
        \A i, j \in 1..Len(diagnostics) :
            i < j =>
                /\ ~(diagnostics[i].severity = "warning" /\ diagnostics[j].severity = "error")
                /\ diagnostics[i].severity = diagnostics[j].severity
                      => diagnostics[i].line <= diagnostics[j].line

\* a returned list with both severities that the sort had to reorder
C6_Witness ==
    /\ phase = "done"
    /\ \E i, j \in 1..Len(diagnostics) :
          diagnostics[i].severity = "error" /\ diagnostics[j].severity = "warning"
    /\ \E i, j \in 1..Len(diagnostics) :
          /\ i < j
          /\ diagnostics[i].severity = diagnostics[j].severity
          /\ diagnostics[i].line < diagnostics[j].line
    /\ LintEndChecks(lst).diags # diagnostics

-----------------------------------------------------------------------------
(* Linting one text after another *)

MaxRelintLines == 3

RelintLines == {Marker("MODULE"), Field("TITLE", X), Marker("DIALOGUE"), Field("VOCAB", X)}

NextRelint ==
    \/ \E l \in RelintLines : Len(text) < MaxRelintLines /\ ReadLine(l)
    \/ EndOfInput
    \/ NewCall

SpecRelint == Init /\ [][NextRelint]_vars

-----------------------------------------------------------------------------
(* Activity blocks *)

MaxIndexLines == 3

IndexLines ==
    {Marker("DIALOGUE"), MarkerT("DIALOGUE", A), MarkerT("DIALOGUE", <<"a">>),
     MarkerT("CHAT", <<"!">>), MarkerT("EXERCISE", <<"a", " ", "B">>), Marker("GRAMMAR"),
     Marker("LESSON"), MarkerColon("DIALOGUE", B), Indented("SP", Marker("CHAT")),
     Marker("FOO"), Field("LINE", X)}

NextIndex ==
    \/ text = <<>> /\ ReadLines(CompleteHeader)
    \/ \E l \in IndexLines :
          /\ text # <<>>
          /\ Len(text) < Len(CompleteHeader) + MaxIndexLines
          /\ ReadLine(l)
    \/ EndOfInput

SpecIndex == Init /\ [][NextIndex]_vars

\* the ids parseModuleFile gave the activities of the returned Module
ParsedActivityIds(module) ==
    UNION {{module.lessons[i].activities[j].id :
                j \in 1..Len(module.lessons[i].activities)} :
           i \in 1..Len(module.lessons)}

\* C8: for a text parseModuleFile accepts, the keys of buildActivityRawIndex
\* are the ids of the activities of the returned Module
C8_IndexKeysAreActivityIds ==
    (phase = "done" /\ result.ok) =>
        DOMAIN rawIndex = ParsedActivityIds(result.module)

\* an activity without a title and one whose title has an empty slug
C8_Witness ==
    /\ phase = "done"
    /\ result.ok
    /\ text = CompleteHeader \o <<Marker("GRAMMAR"), MarkerT("CHAT", <<"!">>),
                                  MarkerT("EXERCISE", <<"a", " ", "B">>)>>
    /\ DOMAIN rawIndex =
          {MarkerChars("GRAMMAR") \o <<"-", "g", "r", "a", "m", "m", "a", "r">>,
           MarkerChars("CHAT") \o <<"-">>,
           MarkerChars("EXERCISE") \o <<"-", "a", "-", "b">>}

-----------------------------------------------------------------------------
(* Indented lines *)

MaxIndentLines == 3

IndentLines ==
    {Field("TITLE", X), Indented("SP", Field("TITLE", X)), Indented("TAB", Field("TITLE", X)),
     Indented("FF", Field("TITLE", X)),
     Marker("LESSON"), Indented("SP", Marker("LESSON")), Indented("TAB", MarkerT("LESSON", A)),
     Marker("DIALOGUE"), Indented("SP", MarkerT("DIALOGUE", A)),
     Field("LINE", X), Indented("SP", Field("LINE", X))}

NextIndent ==
    \/ \E l \in IndentLines : Len(text) < MaxIndentLines /\ ReadLine(l)
    \/ EndOfInput

SpecIndent == Init /\ [][NextIndent]_vars

LastLine == text[Len(text)]

\* the parser state before the last line of the text was read
BeforeLastLine == ParseOver(NewParserState, SubSeq(text, 1, Len(text) - 1))

\* what processLine does with a line that is neither comment, marker, EXAMPLE
\* nor field: content of the open activity, or nothing
KeptAsContent(state, line) ==
    IF state.currentActivity # NoActivity
    THEN [state EXCEPT !.activityContentBuffer = Append(@, RawItem(line))]
    ELSE state

\* the linter has an error with this code on this line
LintError(diags, lineNo, code) ==
    \E k \in 1..Len(diags) :
        diags[k].severity = "error" /\ diags[k].line = lineNo /\ diags[k].code = code

SpaceOrTab(l) == l.ind \in {"SP", "TAB"}

\* C9 (as claimed): a field line behind a leading space or tab gets the
\* field-indent error and the parser handles it as the field at column 0
C9_IndentedFieldApplied ==
    (phase = "reading" /\ text # <<>> /\ LastLine.kind = "field" /\ SpaceOrTab(LastLine)) =>
        /\ LintError(lst.diags, Len(text), "field-indent")
        /\ pst = processLine(BeforeLastLine, Indented("", LastLine))

\* C9: a field line behind a leading space or tab gets the field-indent error
\* on its line, in the linter's list and in the list returned; the parser does
\* not handle it as a field: outside an activity nothing changes, inside one
\* the line becomes content of the activity
C9_IndentedFieldFlaggedNotApplied ==
    /\ (phase = "reading" /\ text # <<>> /\ LastLine.kind = "field" /\ SpaceOrTab(LastLine)) =>
          /\ LintError(lst.diags, Len(text), "field-indent")
          /\ pst = KeptAsContent(BeforeLastLine, LastLine)
    /\ phase = "done" =>
          \A i \in 1..Len(text) :
              (text[i].kind = "field" /\ SpaceOrTab(text[i])) =>
                  LintError(diagnostics, i, "field-indent")

\* ` TITLE: x` as the only line: flagged, and the title stays unset
C9_Witness ==
    /\ phase = "reading"
    /\ text = <<Indented("SP", Field("TITLE", X))>>
    /\ LintError(lst.diags, 1, "field-indent")
    /\ pst.module.title = Undefined
    /\ processLine(NewParserState, Field("TITLE", X)).module.title = X

\* C10 (as claimed): a section marker behind a leading space or tab gets the
\* section-indent error and the parser handles it as the marker at column 0
C10_IndentedMarkerOpens ==
    (phase = "reading" /\ text # <<>> /\ LastLine.kind = "marker" /\ SpaceOrTab(LastLine)) =>
        /\ LintError(lst.diags, Len(text), "section-indent")
        /\ pst = processLine(BeforeLastLine, Indented("", LastLine))

\* C10: a section marker behind a leading space or tab gets the section-indent
\* error on its line, in the linter's list and in the list returned; the parser
\* opens nothing for it: outside an activity nothing changes, inside one the
\* line becomes content of the activity
C10_IndentedMarkerFlaggedNotOpened ==
    /\ (phase = "reading" /\ text # <<>> /\ LastLine.kind = "marker" /\ SpaceOrTab(LastLine)) =>
          /\ LintError(lst.diags, Len(text), "section-indent")
          /\ pst = KeptAsContent(BeforeLastLine, LastLine)
    /\ phase = "done" =>
          \A i \in 1..Len(text) :
              (text[i].kind = "marker" /\ SpaceOrTab(text[i])) =>
                  LintError(diagnostics, i, "section-indent")

\* $LESSON, $DIALOGUE, then ` $DIALOGUE A`: flagged, no second activity, and
\* the line is content of the open dialogue
C10_Witness ==
    /\ phase = "reading"
    /\ text = <<Marker("LESSON"), Marker("DIALOGUE"), Indented("SP", MarkerT("DIALOGUE", A))>>
    /\ LintError(lst.diags, 3, "section-indent")
    /\ pst.currentLesson.activities = <<>>
    /\ pst.currentActivity.title # A
    /\ pst.activityContentBuffer = <<RawItem(Indented("SP", MarkerT("DIALOGUE", A)))>>

-----------------------------------------------------------------------------
(* Linting malformed text *)

MaxAnyLines == 3

AnyLines ==
    {Blank, Comment(X), Raw(X), Marker("MODULE"), Marker("FOO"), Marker(""),
     MarkerColon("LESSON", A), Marker("EXERCISE"), Indented("FF", Marker("LESSON")),
     Example, Field("FOO", X), Field("VOICE_SPEAKER", X), Field("VOICE", X),
     Field("VOCAB", X), Field("RESPONSE", <<>>)}

NextAny ==
    \/ \E l \in AnyLines : Len(text) < MaxAnyLines /\ ReadLine(l)
    \/ EndOfInput

SpecAny == Init /\ [][NextAny]_vars

\* a Diagnostic of a text of n lines
IsDiagnostic(d, n) ==
    /\ DOMAIN d = {"severity", "line", "message", "code"}
    /\ d.severity \in {"error", "warning"}
    /\ d.line \in 1..n
    /\ d.message # <<>>

\* C11: for every text, the empty one and those parseModuleFile rejects
\* included, lintModuleText returns a list of diagnostics, each of them on a
\* line of the text
C11_LintReturnsDiagnostics ==
    phase = "done" =>
        \A k \in 1..Len(diagnostics) : IsDiagnostic(diagnostics[k], Len(text))

\* the empty text: parseModuleFile throws, lintModuleText returns two errors
C11_Witness ==
    /\ phase = "done"
    /\ text = <<Blank>>
    /\ ~result.ok
    /\ Len(diagnostics) = 2
    /\ diagnostics[1].code = "no-sections"
    /\ diagnostics[2].code = "missing-module"

-----------------------------------------------------------------------------
(* Voice configuration *)

MaxVoiceLines == 3

AoedeName == <<"A", "o", "e", "d", "e">>

aoedeName == <<"a", "o", "e", "d", "e">>

BadName == <<"B", "a", "d">>

\* `a | b`
Piped(a, b) == a \o <<" ", "|", " ">> \o b

\* `a = b`
Mapped(a, b) == a \o <<" ", "=", " ">> \o b

VoiceLines ==
    {Marker("MODULE"), Marker("LESSON"),
     Field("VOICE_DEFAULT", AoedeName), Field("VOICE_DEFAULT", aoedeName),
     Field("VOICE_INTRO", Piped(BadName, X)), Field("VOICE_PROMPT", BadName),
     Field("VOICE_RESPONSE", <<>>), Indented("SP", Field("VOICE_DEFAULT", BadName)),
     Field("VOICE_SPEAKER", Mapped(Y, AoedeName)),
     Field("VOICE_SPEAKER", Mapped(Y, Piped(BadName, X))),
     Field("VOICE_SPEAKER", X),
     Field("VOICE", Piped(Y, Piped(B, Piped(AoedeName, X)))),
     Field("VOICE", Piped(Y, Piped(AoedeName, BadName))),
     Field("VOICE", Piped(Y, AoedeName))}

NextVoice ==
    \/ \E l \in VoiceLines : Len(text) < MaxVoiceLines /\ ReadLine(l)
    \/ EndOfInput

SpecVoice == Init /\ [][NextVoice]_vars

SingleVoiceFields == {"VOICE_DEFAULT", "VOICE_INTRO", "VOICE_PROMPT", "VOICE_RESPONSE"}

\* line i of t is a column-0 voice field of the header with the shape its field asks for
WellShapedVoiceAt(t, i) ==
    /\ i <= HeaderLen(t)
    /\ t[i].ind = ""
    /\ t[i].kind = "field"
    /\ \/ t[i].name \in SingleVoiceFields /\ VoiceMatches(t[i].val)
       \/ t[i].name = "VOICE_SPEAKER" /\ SpeakerMatches(t[i].val)
       \/ t[i].name = "VOICE" /\ Len(TrimmedParts(t[i].val)) >= 3

\* the voice name of such a line: before the first pipe, after the equals sign,
\* or the third segment
VoiceNameAt(t, i) ==
    CASE t[i].name \in SingleVoiceFields -> VoiceSpecOf(t[i].val).voice
      [] t[i].name = "VOICE_SPEAKER"    -> SpeakerVoiceOf(t[i].val).voice
      [] t[i].name = "VOICE"            -> TrimmedParts(t[i].val)[3]

\* C12: a well-shaped voice field of the header whose voice name is not one of
\* VALID_GEMINI_VOICES gets an error with code voice-invalid on its line
C12_UnknownVoiceIsError ==
    phase = "done" =>
        \A i \in 1..Len(text) :
            (WellShapedVoiceAt(text, i) /\ VoiceNameAt(text, i) \notin VALID_GEMINI_VOICES)
                => LintError(diagnostics, i, "voice-invalid")

\* $MODULE, then `VOICE_SPEAKER: y = Bad | x` and `VOICE: y | Aoede | Bad`
C12_Witness ==
    /\ phase = "done"
    /\ text = <<Marker("MODULE"), Field("VOICE_SPEAKER", Mapped(Y, Piped(BadName, X))),
                Field("VOICE", Piped(Y, Piped(AoedeName, BadName)))>>
    /\ LintError(diagnostics, 2, "voice-invalid")
    /\ LintError(diagnostics, 3, "voice-invalid")

\* C13 (as claimed): a well-shaped voice field whose voice name is one of
\* VALID_GEMINI_VOICES up to letter case gets no voice-invalid error
C13_VoiceNameAnyCase ==
    phase = "done" =>
        \A i \in 1..Len(text) :
            (/\ WellShapedVoiceAt(text, i)
             /\ \E v \in VALID_GEMINI_VOICES :
                    toLowerCase(v) = toLowerCase(VoiceNameAt(text, i)))
                => ~LintError(diagnostics, i, "voice-invalid")

\* `VOICE_DEFAULT: aoede` in the header is reported as an unknown voice
C13_Witness ==
    /\ phase = "done"
    /\ text = <<Marker("MODULE"), Field("VOICE_DEFAULT", aoedeName)>>
    /\ LintError(diagnostics, 2, "voice-invalid")

\* C14 (as claimed): a header line `VOICE: id | name | voice | prompt` stores
\* under id the voice of the third segment, the display name of the second and
\* the prompt of the fourth, the voice being the segment the linter validates
C14_VoiceSegments ==
    (/\ phase = "reading" /\ text # <<>>
     /\ WellShapedVoiceAt(text, Len(text)) /\ LastLine.name = "VOICE") =>
        LET parts == TrimmedParts(LastLine.val)
        IN  /\ parts[1] \in DOMAIN pst.voiceConfig.speakers
            /\ pst.voiceConfig.speakers[parts[1]].voice = parts[3]
            /\ pst.voiceConfig.speakers[parts[1]].displayName = parts[2]
            /\ Len(parts) >= 4 => pst.voiceConfig.speakers[parts[1]].prompt = parts[4]

\* `VOICE: y | B | Aoede | x`: the parser stores voice B and prompt `Aoede | x`,
\* the linter accepts the line
C14_Witness ==
    /\ phase = "reading"
    /\ text = <<Field("VOICE", Piped(Y, Piped(B, Piped(AoedeName, X))))>>
    /\ pst.voiceConfig.speakers[Y].voice = B
    /\ pst.voiceConfig.speakers[Y].prompt = Piped(AoedeName, X)
    /\ pst.voiceConfig.speakers[Y].displayName = Null
    /\ ~LintError(lst.diags, 1, "voice-invalid")

-----------------------------------------------------------------------------
(* Linting the module header *)

MaxLintHeaderLines == 4

LintHeaderLines ==
    {Marker("MODULE"), Marker("LESSON"), Marker("DIALOGUE"),
     Field("DIOCO_DOC_ID", X), Field("TITLE", X), Field("TITLE", <<>>),
     Field("TARGET_LANG_G", X), Field("HOME_LANG_G", X), Field("USER_LANG_G", X)}

NextLintHeader ==
    \/ \E l \in LintHeaderLines : Len(text) < MaxLintHeaderLines /\ ReadLine(l)
    \/ EndOfInput

SpecLintHeader == Init /\ [][NextLintHeader]_vars

\* a column-0 section marker with one of the names
IsMarkerNamed(l, names) == StartsWithDollar(l) /\ MarkerMatches(l) /\ l.name \in names

\* the linter has a warning with this code on this line
LintWarning(diags, lineNo, code) ==
    \E k \in 1..Len(diags) :
        diags[k].severity = "warning" /\ diags[k].line = lineNo /\ diags[k].code = code

\* C15 (as claimed): a header field line standing before the $MODULE marker
\* line gets the warning header-before-module on its line
C15_HeaderBeforeModuleWarned ==
    phase = "done" =>
        \A i \in 1..Len(text) :
            (/\ FieldMatches(text[i])
             /\ text[i].name \in headerFields
             /\ \E j \in (i + 1)..Len(text) : IsMarkerNamed(text[j], {"MODULE"})
             /\ \A j \in 1..(i - 1) : ~IsMarkerNamed(text[j], {"MODULE"}))
                => LintWarning(diagnostics, i, "header-before-module")

\* `TITLE: x` and then $MODULE: the list has no warning for line 1, the title
\* even counts as seen
C15_Witness ==
    /\ phase = "done"
    /\ text = <<Field("TITLE", X), Marker("MODULE")>>
    /\ \A k \in 1..Len(diagnostics) :
          diagnostics[k].code # "header-before-module" /\ diagnostics[k].code # "missing-title"

\* the linter takes line i of t as a header line: no $LESSON before it, and no
\* activity marker since the last $MODULE
InLintHeader(t, i) ==
    /\ \A j \in 1..(i - 1) : ~IsMarkerNamed(t[j], {"LESSON"})
    /\ \A j \in 1..(i - 1) :
          IsMarkerNamed(t[j], ActivityMarkers)
              => \E k \in (j + 1)..(i - 1) : IsMarkerNamed(t[k], {"MODULE"})

\* a field line with one of the names was seen in the header
SeenInHeader(t, names) ==
    \E i \in 1..Len(t) : FieldMatches(t[i]) /\ t[i].name \in names /\ InLintHeader(t, i)

MissingCodes ==
    <<"missing-dioco-doc-id", "missing-title", "missing-target-lang", "missing-home-lang">>

\* the number of errors with this code
ErrorCount(diags, code) ==
    Cardinality({k \in 1..Len(diags) : diags[k].severity = "error" /\ diags[k].code = code})

\* C17: with a $MODULE marker in the text the list has one error for each
\* mandatory header field not seen in the header and none for one seen, either
\* of HOME_LANG_G and USER_LANG_G counting for the home language, and no
\* missing-module error; without a $MODULE marker it has one missing-module
\* error and no error for a field
C17_MissingHeaderErrors ==
    phase = "done" =>
        IF \E j \in 1..Len(text) : IsMarkerNamed(text[j], {"MODULE"})
        THEN /\ ErrorCount(diagnostics, "missing-module") = 0
             /\ \A k \in 1..4 :
                   ErrorCount(diagnostics, MissingCodes[k]) =
                       IF SeenInHeader(text, MandatoryFields[k]) THEN 0 ELSE 1
        ELSE /\ ErrorCount(diagnostics, "missing-module") = 1
             /\ \A k \in 1..4 : ErrorCount(diagnostics, MissingCodes[k]) = 0

\* $MODULE, TITLE, USER_LANG_G, then a lesson: errors for the document id and
\* the target language only
C17_Witness ==
    /\ phase = "done"
    /\ text = <<Marker("MODULE"), Field("TITLE", X), Field("USER_LANG_G", X), Marker("LESSON")>>
    /\ ErrorCount(diagnostics, "missing-dioco-doc-id") = 1
    /\ ErrorCount(diagnostics, "missing-target-lang") = 1
    /\ ErrorCount(diagnostics, "missing-title") = 0
    /\ ErrorCount(diagnostics, "missing-home-lang") = 0

-----------------------------------------------------------------------------
(* Linting EXAMPLE tokens *)

MaxExampleLines == 4

ExampleLines ==
    {Marker("EXERCISE"), Marker("DIALOGUE"), Marker("LESSON"), Example,
     Field("PROMPT", A), Field("RESPONSE", B)}

NextExample ==
    \/ \E l \in ExampleLines : Len(text) < MaxExampleLines /\ ReadLine(l)
    \/ EndOfInput

SpecExample == Init /\ [][NextExample]_vars

\* line i of t stands in an exercise: the last $MODULE, $LESSON or activity
\* marker before it is $EXERCISE
InExerciseAt(t, i) ==
    \E j \in 1..(i - 1) :
        /\ IsMarkerNamed(t[j], {"EXERCISE"})
        /\ \A k \in (j + 1)..(i - 1) : ~IsMarkerNamed(t[k], sectionNames)

\* a PROMPT tag follows line i before the next section marker
PromptFollows(t, i) ==
    \E p \in (i + 1)..Len(t) :
        /\ IsPromptTag(t[p])
        /\ \A k \in (i + 1)..(p - 1) : ~IsMarkerNamed(t[k], sectionNames)

\* C16 (as claimed): an EXAMPLE token in an exercise with no PROMPT tag before
\* the next section marker or the end of the text gets the warning
\* example-not-applied on its line
C16_UnappliedExampleWarned ==
    phase = "done" =>
        \A i \in 1..Len(text) :
            (IsExampleAtCol0(text[i]) /\ InExerciseAt(text, i) /\ ~PromptFollows(text, i))
                => LintWarning(diagnostics, i, "example-not-applied")

\* $EXERCISE, EXAMPLE, $DIALOGUE: the token is dropped without a warning
C16_Witness ==
    /\ phase = "done"
    /\ text = <<Marker("EXERCISE"), Example, Marker("DIALOGUE")>>
    /\ \A k \in 1..Len(diagnostics) : diagnostics[k].code # "example-not-applied"

-----------------------------------------------------------------------------
(* Course files *)

MaxCourseLines == 3

CourseStart ==
    <<Field("DIOCO_PLAYLIST_ID", X), Field("TITLE", X), Field("TARGET_LANG_G", X)>>

CourseLines ==
    {Field("DIOCO_PLAYLIST_ID", X), Field("TITLE", X), Field("TITLE", <<>>),
     Field("TARGET_LANG_G", X), Field("HOME_LANG_G", X), Field("USER_LANG_G", Y),
     Indented("TAB", Field("HOME_LANG_G", <<>>)), Field("DESCRIPTION", Y),
     SpacedField("IMAGE", Y), Marker("COURSE"), Comment(X)}

\* lines a text may hold: MaxCourseLines, after CourseStart as many again
CourseBudget(t) ==
    IF Len(t) >= Len(CourseStart) /\ SubSeq(t, 1, Len(CourseStart)) = CourseStart
    THEN Len(CourseStart) + MaxCourseLines ELSE MaxCourseLines

NextCourse ==
    \/ text = <<>> /\ ReadLines(CourseStart)
    \/ \E l \in CourseLines : Len(text) < CourseBudget(text) /\ ReadLine(l)
    \/ EndOfInput

SpecCourse == Init /\ [][NextCourse]_vars

\* the lines of t that are an occurrence of one of the named fields
OccurrencesOf(t, names) ==
    {i \in 1..Len(t) : t[i].kind \notin {"blank", "comment"}
                        /\ CourseFieldName(t[i]) \in names}

\* the value of the last occurrence, Undefined when there is none
LastValueOf(t, names) ==
    IF OccurrencesOf(t, names) = {} THEN Undefined
    ELSE Trim(t[CHOOSE i \in OccurrencesOf(t, names) :
                  \A j \in OccurrencesOf(t, names) : j <= i].val)

CourseMandatory ==
    <<[names |-> {"DIOCO_PLAYLIST_ID"},
       message |-> "Missing DIOCO_PLAYLIST_ID in .course file"],
      [names |-> {"TITLE"}, message |-> "Missing TITLE in .course file"],
      [names |-> {"TARGET_LANG_G"}, message |-> "Missing TARGET_LANG_G in .course file"],
      [names |-> {"HOME_LANG_G", "USER_LANG_G"},
       message |-> "Missing HOME_LANG_G in .course file"]>>

CourseLacking(t) ==
    {k \in 1..Len(CourseMandatory) :
        LastValueOf(t, CourseMandatory[k].names) \in {Undefined, <<>>}}

\* C18: parseCourseFile returns a Course exactly when the last occurrence of
\* each of DIOCO_PLAYLIST_ID, TITLE, TARGET_LANG_G and the home language
\* (HOME_LANG_G or USER_LANG_G, one slot) has a non-empty value, and the Course
\* holds those values, description defaulting to "" and image to null;
\* otherwise it throws the error of the first lacking field in that order
C18_CourseValidated ==
    phase = "done" =>
        IF CourseLacking(text) = {}
        THEN /\ course.ok
             /\ course.course =
                  [diocoPlaylistId |-> LastValueOf(text, {"DIOCO_PLAYLIST_ID"}),
                   title |-> LastValueOf(text, {"TITLE"}),
                   description |->
                       IF LastValueOf(text, {"DESCRIPTION"}) = Undefined THEN <<>>
                       ELSE LastValueOf(text, {"DESCRIPTION"}),
                   image |->
                       IF LastValueOf(text, {"IMAGE"}) = Undefined THEN Null
                       ELSE LastValueOf(text, {"IMAGE"}),
                   targetLang_G |-> LastValueOf(text, {"TARGET_LANG_G"}),
                   homeLang_G |-> LastValueOf(text, {"HOME_LANG_G", "USER_LANG_G"})]
        ELSE LET first == CHOOSE k \in CourseLacking(text) :
                              \A m \in CourseLacking(text) : k <= m
             IN  course = CourseThrown(CourseMandatory[first].message)

\* a course whose home language comes from USER_LANG_G after an empty
\* HOME_LANG_G, with no DESCRIPTION and no IMAGE line
C18_Witness ==
    /\ phase = "done"
    /\ course.ok
    /\ course.course.homeLang_G = Y
    /\ course.course.description = <<>>
    /\ course.course.image = Null
    /\ \E i \in 1..Len(text) : text[i] = Indented("TAB", Field("HOME_LANG_G", <<>>))

\* a course text rejected because a later empty TITLE replaced an earlier one
C18_WitnessThrown ==
    /\ phase = "done"
    /\ course = CourseThrown("Missing TITLE in .course file")
    /\ \E i \in 1..Len(text) : text[i] = Field("TITLE", X)

-----------------------------------------------------------------------------
(* Blank lines, comment lines and Grammar bodies *)

MaxGrammarLines == 4

GrammarLines ==
    {MarkerT("GRAMMAR", A), Marker("DIALOGUE"), Blank, Indented("SP", Blank),
     Comment(X), Raw(X), Indented("SP", Raw(Y)), Field("INTRO", Y),
     Field("NOTES", X), Field("TITLE", Y)}

NextGrammar ==
    \/ text = <<>> /\ ReadLines(CompleteHeader)
    \/ \E l \in GrammarLines :
          /\ text # <<>>
          /\ Len(text) < Len(CompleteHeader) + MaxGrammarLines
          /\ ReadLine(l)
    \/ EndOfInput

SpecGrammar == Init /\ [][NextGrammar]_vars

\* parseModuleFile on a whole text
parseModuleFile(t) == parseModuleEnd(ParseOver(NewParserState, t))

\* the text without its line i
RemoveAt(t, i) == SubSeq(t, 1, i - 1) \o SubSeq(t, i + 1, Len(t))

\* the markers that close the open activity
ClosingNames == {"LESSON"} \cup ActivityMarkers

\* line i of t stands in a Grammar body: the last $LESSON or activity marker
\* before it is $GRAMMAR
InGrammarAt(t, i) ==
    \E j \in 1..(i - 1) :
        /\ IsMarkerNamed(t[j], {"GRAMMAR"})
        /\ \A k \in (j + 1)..(i - 1) : ~IsMarkerNamed(t[k], ClosingNames)

\* a line that puts a non-blank entry into the buffer of an open activity
IsContentLine(l) ==
    /\ l.kind \notin {"blank", "comment"}
    /\ ~StartsWithDollar(l)
    /\ FieldMatches(l) => l.name \in BufferedFields

\* line i stands in a Grammar body with content before it and after it
BetweenGrammarContent(t, i) ==
    /\ InGrammarAt(t, i)
    /\ \E a \in 1..(i - 1) :
          /\ InGrammarAt(t, a) /\ IsContentLine(t[a])
          /\ \A k \in a..i : ~IsMarkerNamed(t[k], ClosingNames)
    /\ \E b \in (i + 1)..Len(t) :
          /\ IsContentLine(t[b])
          /\ \A k \in i..b : ~IsMarkerNamed(t[k], ClosingNames)

C19_WitnessIgnored ==
    /\ phase = "done"
    /\ result.ok
    /\ \E i \in 1..Len(text) :
          text[i].kind = "blank" /\ InGrammarAt(text, i) /\ ~BetweenGrammarContent(text, i)
    /\ \E i \in 1..Len(text) : text[i].kind = "comment" /\ InGrammarAt(text, i)

\* the Grammar activities of a module, in order
GrammarContents(mod) ==
    LET RECURSIVE OfLessons(_)
        OfLessons(lessons) ==
            IF lessons = <<>> THEN <<>>
            ELSE LET g == SelectSeq(Head(lessons).activities,
                                    LAMBDA a : a.type = "GRAMMAR")
                 IN  [k \in 1..Len(g) |-> g[k].content] \o OfLessons(Tail(lessons))
    IN  OfLessons(mod.lessons)

\* the lines after marker line i up to the next closing marker
BodyOf(t, i) ==
    LET ends == {j \in (i + 1)..Len(t) : IsMarkerNamed(t[j], ClosingNames)} \cup {Len(t) + 1}
        end == CHOOSE j \in ends : \A m \in ends : j <= m
    IN  SubSeq(t, i + 1, end - 1)

\* the join the claim describes: every body line that is neither a column-0
\* marker nor a column-0 field, as a raw entry, trimmed as a whole
JoinOfBody(body) ==
    LET kept == SelectSeq(body, LAMBDA l : ~StartsWithDollar(l) /\ ~FieldMatches(l))
    IN  TrimJoined([k \in 1..Len(kept) |-> RawItem(kept[k])])

GrammarStarts(t) == {i \in 1..Len(t) : IsMarkerNamed(t[i], {"GRAMMAR"})}

\* C20 (as claimed): the content of every Grammar activity is the trimmed
\* newline-join of the body lines that are neither column-0 markers nor
\* FIELD: value lines, in order, lines beginning with # included
C20_GrammarContentIsBody ==
    (phase = "done" /\ result.ok) =>
        /\ Len(GrammarContents(result.module)) = Cardinality(GrammarStarts(text))
        /\ \A i \in GrammarStarts(text) :
              GrammarContents(result.module)[Cardinality({j \in GrammarStarts(text) : j <= i})]
                  = JoinOfBody(BodyOf(text, i))

\* a returned module with a Grammar body that holds a line beginning with #
\* and a line of text
C20_Witness ==
    /\ phase = "done"
    /\ result.ok
    /\ \E i \in GrammarStarts(text) :
          /\ \E k \in 1..Len(BodyOf(text, i)) : BodyOf(text, i)[k].kind = "comment"
          /\ \E k \in 1..Len(BodyOf(text, i)) : BodyOf(text, i)[k].kind = "raw"

-----------------------------------------------------------------------------
(* Extent of the raw blocks *)

\* the first line after line i that starts with $ at column 0, or the line
\* after the last
NextDollarAfter(t, i) ==
    LET later == {j \in (i + 1)..Len(t) : StartsWithDollar(t[j])} \cup {Len(t) + 1}
    IN  CHOOSE j \in later : \A m \in later : j <= m

\* C21: every block of buildActivityRawIndex starts at a column-0 activity
\* marker line and ends at the line before the next line that starts with $
\* at column 0, or at the last line; so startLine <= endLine, no line of a
\* block after its first starts with $, and blocks never overlap
C21_BlockExtent ==
    phase = "done" =>
        /\ \A k \in DOMAIN rawIndex :
              LET b == rawIndex[k]
              IN  /\ b.startLine \in 1..Len(text)
                  /\ IsMarkerNamed(text[b.startLine], ActivityMarkers)
                  /\ b.endLine = NextDollarAfter(text, b.startLine) - 1
                  /\ b.startLine <= b.endLine
                  /\ b.text = SubSeq(text, b.startLine, b.endLine)
                  /\ \A j \in (b.startLine + 1)..b.endLine : ~StartsWithDollar(text[j])
        /\ \A k1, k2 \in DOMAIN rawIndex :
              k1 # k2 => \/ rawIndex[k1].endLine < rawIndex[k2].startLine
                         \/ rawIndex[k2].endLine < rawIndex[k1].startLine

\* a block that holds a line of content and is closed by a $ line that does
\* not match the marker pattern
C21_Witness ==
    /\ phase = "done"
    /\ \E k \in DOMAIN rawIndex :
          /\ rawIndex[k].endLine > rawIndex[k].startLine
          /\ rawIndex[k].endLine < Len(text)
          /\ ~MarkerMatches(text[rawIndex[k].endLine + 1])

\* two blocks, the second closed by the end of the text
C21_WitnessTwoBlocks ==
    /\ phase = "done"
    /\ Cardinality(DOMAIN rawIndex) = 2
    /\ \E k \in DOMAIN rawIndex : rawIndex[k].endLine = Len(text)

-----------------------------------------------------------------------------
(* Lessons and activities *)

MaxActivityLines == 4

ActivityLines ==
    {Marker("LESSON"), MarkerT("LESSON", A), Marker("DIALOGUE"), MarkerT("GRAMMAR", A),
     Marker("CHAT"), MarkerColon("LESSON", A), Marker("MODULE"), Marker("FOO"),
     Indented("SP", Marker("DIALOGUE")), Field("LINE", X), Field("INTRO", Y)}

NextActivity ==
    \/ text = <<>> /\ ReadLines(CompleteHeader)
    \/ \E l \in ActivityLines :
          /\ text # <<>>
          /\ Len(text) < Len(CompleteHeader) + MaxActivityLines
          /\ ReadLine(l)
    \/ EndOfInput

SpecActivity == Init /\ [][NextActivity]_vars

\* the column-0 $LESSON and activity markers of the text, in source order
SectionMarks(t) == SelectSeq(t, OpensSection)

\* the number of activity markers at the head of a sequence of markers
RECURSIVE LeadingActivities(_)
LeadingActivities(marks) ==
    IF marks # <<>> /\ IsActivityMarker(Head(marks))
    THEN 1 + LeadingActivities(Tail(marks)) ELSE 0

\* the activity markers before the first $LESSON marker
BeforeFirstLesson(t) ==
    SubSeq(SectionMarks(t), 1, LeadingActivities(SectionMarks(t)))

\* C22: when an activity marker comes before any $LESSON marker, parseModuleFile
\* raises no error and the Module has exactly one lesson more than the text
\* has $LESSON markers: the first, with id default-lesson and title Default
\* Lesson, which holds one activity per activity marker before the first
\* $LESSON marker, in order
C22_DefaultLesson ==
    (phase = "done" /\ BeforeFirstLesson(text) # <<>>) =>
        /\ result.ok
        /\ Len(result.module.lessons) = 1 + Len(SelectSeq(text, IsLessonMarker))
        /\ result.module.lessons[1].id = DefaultLessonId
        /\ result.module.lessons[1].title = DefaultLessonTitle
        /\ Len(result.module.lessons[1].activities) = Len(BeforeFirstLesson(text))
        /\ \A k \in 1..Len(BeforeFirstLesson(text)) :
              result.module.lessons[1].activities[k].type = BeforeFirstLesson(text)[k].name

\* two activities before the first $LESSON marker and one after it
C22_Witness ==
    /\ phase = "done"
    /\ result.ok
    /\ Len(BeforeFirstLesson(text)) = 2
    /\ Len(result.module.lessons) = 2
    /\ Len(result.module.lessons[1].activities) = 2
    /\ Len(result.module.lessons[2].activities) = 1

\* the lessons the markers describe: each $LESSON marker with the activity
\* markers up to the next one, after the activity markers that come before
\* the first $LESSON marker (lesson "default")
RECURSIVE ExpectedLessons(_)
ExpectedLessons(marks) ==
    IF marks = <<>> THEN <<>>
    ELSE IF IsLessonMarker(Head(marks))
    THEN LET n == LeadingActivities(Tail(marks))
         IN  <<[default |-> FALSE, acts |-> SubSeq(Tail(marks), 1, n)]>>
             \o ExpectedLessons(SubSeq(Tail(marks), n + 1, Len(Tail(marks))))
    ELSE LET n == LeadingActivities(marks)
         IN  <<[default |-> TRUE, acts |-> SubSeq(marks, 1, n)]>>
             \o ExpectedLessons(SubSeq(marks, n + 1, Len(marks)))

\* the number of activities of a sequence of lessons
RECURSIVE ActivityCount(_)
ActivityCount(lessons) ==
    IF lessons = <<>> THEN 0
    ELSE Len(Head(lessons).activities) + ActivityCount(Tail(lessons))

\* C24: every column-0 activity marker that matches the marker pattern yields
\* exactly one activity of the Module, placed in the lesson of the nearest
\* preceding $LESSON marker (or the Default Lesson), in source order; the
\* number of activities is the number of such markers, an activity and a
\* lesson still open at the end of the text included
C24_ActivityPerMarker ==
    (phase = "done" /\ result.ok) =>
        LET expected == ExpectedLessons(SectionMarks(text))
            lessons == result.module.lessons
        IN  /\ ActivityCount(lessons) = Len(SelectSeq(text, IsActivityMarker))
            /\ Len(lessons) = Len(expected)
            /\ \A i \in 1..Len(lessons) :
                  /\ (lessons[i].id = DefaultLessonId) = expected[i].default
                  /\ Len(lessons[i].activities) = Len(expected[i].acts)
                  /\ \A k \in 1..Len(lessons[i].activities) :
                        /\ lessons[i].activities[k].type = expected[i].acts[k].name
                        /\ lessons[i].activities[k].title =
                              OrElse(MarkerTitle(expected[i].acts[k]),
                                     DefaultTitle(expected[i].acts[k].name))

\* a lesson with two activities, the second still open at the end of the text
C24_Witness ==
    /\ phase = "done"
    /\ result.ok
    /\ IsActivityMarker(text[Len(text)])
    /\ Len(result.module.lessons) = 1
    /\ result.module.lessons[1].id # DefaultLessonId
    /\ Len(result.module.lessons[1].activities) = 2

\* C25: after any prefix of the lines an open activity implies an open lesson,
\* so finalizeActivity never returns early on an open activity
C25_OpenActivityHasLesson ==
    pst.currentActivity # NoActivity => pst.currentLesson # NoLesson

\* an activity is open in the lesson its marker created
C25_Witness ==
    /\ phase = "reading"
    /\ pst.currentActivity # NoActivity
    /\ pst.currentLesson.id = DefaultLessonId
    /\ Len(SelectSeq(text, IsLessonMarker)) = 0

\* a $ line at column 0 that is $MODULE, an unknown marker, or does not
\* match the marker pattern
IsInertMarker(l) ==
    StartsWithDollar(l) /\ (~MarkerMatches(l) \/ l.name \notin ClosingNames)

\* C27: a $MODULE marker, an unknown marker and a $ line that does not match
\* the marker pattern leave the parser state as it was: open lesson, open
\* activity and content buffer are kept
C27_InertMarkers ==
    (phase = "reading" /\ text # <<>> /\ IsInertMarker(LastLine)) =>
        pst = BeforeLastLine

\* an inert marker read while an activity with buffered content is open, and
\* the field line after it attached to that activity
C27_Witness ==
    /\ phase = "reading"
    /\ Len(text) >= 2
    /\ IsInertMarker(text[Len(text) - 1])
    /\ LastLine = Field("INTRO", Y)
    /\ pst.currentActivity.type = "DIALOGUE"
    /\ pst.currentActivity.intro = Y
    /\ pst.activityContentBuffer # <<>>

-----------------------------------------------------------------------------
(* Converting a course *)

MaxFiles == 3

FileNames == {"unit1", "unit2", "unit3"}

\* the listings of the input directory: distinct names
InputLists ==
    UNION {{f \in [1..n -> FileNames] : \A j, k \in 1..n : j # k => f[j] # f[k]} :
           n \in 0..MaxFiles}

NextConvert ==
    \/ \E inputFiles \in InputLists, existing \in SUBSET FileNames :
          StartConvert(inputFiles, existing)
    \/ \E outcome \in Outcomes, errorWritten \in BOOLEAN : Iterate(outcome, errorWritten)
    \/ PrintSummary

SpecConvert == Init /\ [][NextConvert]_vars

\* C23 (as claimed): convertCourse accounts for every input file exactly once:
\* a file whose output exists is skipped, with no API call and no write of the
\* output; a failure while processing a file is recorded and the loop goes on
\* with the next file; when the loop ends success + error + skipped is the
\* number of input files
C23_EveryFileAccounted ==
    conv.pc # "idle" =>
        /\ conv.pc \in {"loop", "returned"}
        /\ conv.success + conv.error + conv.skipped = conv.i
        /\ conv.pc = "returned" => conv.i = Len(conv.inputFiles)
        /\ conv.skipped =
              Cardinality({k \in 1..conv.i : conv.inputFiles[k] \in conv.existing})
        /\ \A k \in 1..Len(conv.calls) : conv.calls[k] \notin conv.existing
        /\ \A k \in 1..Len(conv.saved) : conv.saved[k] \notin conv.existing
        /\ conv.success = Len(conv.saved)
        /\ conv.error = Cardinality(conv.errorFiles)

\* the run has stopped on a file whose error file could not be written, with
\* input files left that were never looked at
C23_Witness ==
    /\ conv.pc = "rejected"
    /\ conv.i + 1 < Len(conv.inputFiles)
    /\ conv.success + conv.error + conv.skipped < Len(conv.inputFiles)

-----------------------------------------------------------------------------
(* Header fields after the first section *)

MaxLateLines == 4

\* a header that lacks TITLE
HeaderWithoutTitle ==
    <<Field("DIOCO_DOC_ID", X), Field("TARGET_LANG_G", X), Field("HOME_LANG_G", X)>>

LateLines ==
    {Field("TITLE", X), Field("HOME_LANG_G", Y), Field("DESCRIPTION", Y),
     Field("TTS_PROMPT", Y), Field("VOICE_DEFAULT", AoedeName),
     Field("VOICE_SPEAKER", Mapped(A, AoedeName)),
     Marker("LESSON"), Marker("DIALOGUE"), MarkerColon("LESSON", A)}

NextLate ==
    \/ text = <<>> /\ ReadLines(HeaderWithoutTitle)
    \/ \E l \in LateLines :
          /\ text # <<>>
          /\ Len(text) < Len(HeaderWithoutTitle) + MaxLateLines
          /\ ReadLine(l)
    \/ EndOfInput

SpecLate == Init /\ [][NextLate]_vars

\* the parser state after the header: the lines before the first column-0
\* $LESSON or activity marker
AfterHeader == ParseOver(NewParserState, SubSeq(text, 1, HeaderLen(text)))

\* the header attributes of a module object
HeaderAttributes(mod) ==
    [diocoDocId |-> mod.diocoDocId, title |-> mod.title,
     description |-> mod.description, image |-> mod.image,
     targetLang_G |-> mod.targetLang_G, homeLang_G |-> mod.homeLang_G,
     ttsPrompt |-> mod.ttsPrompt]

\* a column-0 field line with a header or voice name after the first
\* column-0 $LESSON or activity marker
LateHeaderFieldAt(t, i) ==
    /\ i > HeaderLen(t) + 1
    /\ FieldMatches(t[i])
    /\ t[i].name \in headerFields \cup {"TTS_PROMPT"}

\* C26: once the first column-0 $LESSON or activity marker has been
\* processed, no field line changes a header attribute of the module or the
\* voice configuration; a mandatory field given only after that point counts
\* as missing
C26_HeaderClosedBySection ==
    /\ HeaderAttributes(pst.module) = HeaderAttributes(AfterHeader.module)
    /\ pst.voiceConfig = AfterHeader.voiceConfig
    /\ phase = "done" =>
          IF AfterHeader.module.title \in {Undefined, <<>>}
          THEN result = Thrown("Missing TITLE in .module file")
          ELSE /\ result.ok
               /\ result.module.title = AfterHeader.module.title
               /\ result.module.homeLang_G = AfterHeader.module.homeLang_G
               /\ result.module.voiceConfig = AfterHeader.voiceConfig

\* a text whose only TITLE line and a voice field come after the first
\* section marker: the parse fails for the missing TITLE
C26_Witness ==
    /\ phase = "done"
    /\ result = Thrown("Missing TITLE in .module file")
    /\ \E i \in 1..Len(text) : LateHeaderFieldAt(text, i) /\ text[i] = Field("TITLE", X)
    /\ \E i \in 1..Len(text) : LateHeaderFieldAt(text, i) /\ text[i].name \in voiceFields

-----------------------------------------------------------------------------
(* Dialogue lines and speakers *)

MaxSpeechLines == 4

SpeechLines ==
    {Field("LINE", X), Field("LINE", Y), Field("LINE", <<>>), Field("SPEAKER", A),
     Field("SPEAKER", <<>>), Field("LINE_T", A), Field("NOTES", B), Marker("DIALOGUE")}

NextSpeech ==
    \/ text = <<>> /\ ReadLines(DialogueOpening)
    \/ \E l \in SpeechLines :
          /\ text # <<>>
          /\ Len(text) < Len(DialogueOpening) + MaxSpeechLines
          /\ ReadLine(l)
    \/ EndOfInput

SpecSpeech == Init /\ [][NextSpeech]_vars

IsTag(l, tag) == FieldMatches(l) /\ l.name = tag

\* the lines of t that open a dialogue
DialogueStarts(t) == {i \in 1..Len(t) : IsMarkerNamed(t[i], {"DIALOGUE"})}

\* the activity of the first lesson that marker line i opened (the texts of
\* SpecSpeech hold one $LESSON marker and only $DIALOGUE activities)
DialogueOf(mod, t, i) ==
    mod.lessons[1].activities[Cardinality({j \in DialogueStarts(t) : j <= i})]

\* the positions in a body of the LINE tags with a non-empty value
SpokenAt(body) == {p \in 1..Len(body) : IsTag(body[p], "LINE") /\ body[p].val # <<>>}

\* the position of the n-th such tag
NthSpoken(body, n) ==
    CHOOSE p \in SpokenAt(body) : Cardinality({q \in SpokenAt(body) : q <= p}) = n

\* C28: parseDialogueLines emits exactly one dialogue line per LINE tag with a
\* non-empty value, in source order, with that value as text; a LINE tag with
\* an empty value emits nothing
C28_LinePerLineTag ==
    (phase = "done" /\ result.ok) =>
        \A i \in DialogueStarts(text) :
            LET body == BodyOf(text, i)
                lines == DialogueOf(result.module, text, i).lines
            IN  /\ Len(lines) = Cardinality(SpokenAt(body))
                /\ \A n \in 1..Len(lines) : lines[n].text = body[NthSpoken(body, n)].val

\* a dialogue with two emitted lines around a LINE tag with an empty value
C28_Witness ==
    /\ phase = "done"
    /\ result.ok
    /\ \E i \in DialogueStarts(text) :
          LET body == BodyOf(text, i)
          IN  /\ Len(body) >= 3
              /\ body[1] = Field("LINE", X)
              /\ body[2] = Field("LINE", <<>>)
              /\ body[3] = Field("LINE", Y)
              /\ Len(DialogueOf(result.module, text, i).lines) = 2

\* the value of the last SPEAKER tag of the body before position p, null when
\* there is none or it is empty
SpeakerBefore(body, p) ==
    LET tags == {q \in 1..(p - 1) : IsTag(body[q], "SPEAKER")}
    IN  IF tags = {} THEN Null
        ELSE OrElse(body[CHOOSE q \in tags : \A r \in tags : r <= q].val, Null)

\* C29: the speaker of an emitted dialogue line is the value of the most
\* recent SPEAKER tag before the line's LINE tag in the same activity, carried
\* over speaker-less lines, and null when there is none or it is empty; a
\* speaker never carries over into the next activity
C29_SpeakerOfLine ==
    (phase = "done" /\ result.ok) =>
        \A i \in DialogueStarts(text) :
            LET body == BodyOf(text, i)
                lines == DialogueOf(result.module, text, i).lines
            IN  \A n \in 1..Len(lines) :
                    n <= Cardinality(SpokenAt(body)) =>
                        lines[n].speaker = SpeakerBefore(body, NthSpoken(body, n))

\* a speaker carried over a second line of its dialogue, and a line of the
\* next dialogue without speaker
C29_Witness ==
    /\ phase = "done"
    /\ result.ok
    /\ Len(result.module.lessons[1].activities) = 2
    /\ Len(result.module.lessons[1].activities[1].lines) = 1
    /\ result.module.lessons[1].activities[1].lines[1].speaker = A
    /\ Len(result.module.lessons[1].activities[2].lines) = 1
    /\ result.module.lessons[1].activities[2].lines[1].speaker = Null

\* a speaker carried from one line to the next line of the same dialogue
C29_WitnessCarried ==
    /\ phase = "done"
    /\ result.ok
    /\ Len(result.module.lessons[1].activities[1].lines) = 2
    /\ result.module.lessons[1].activities[1].lines[1].speaker = A
    /\ result.module.lessons[1].activities[1].lines[2].speaker = A

\* the orders of three items
Orders3 == {f \in [1..3 -> 1..3] : \A j, k \in 1..3 : j # k => f[j] # f[k]}

\* the buffer with the three items after position i put in the order f
Reordered(buffer, i, f) ==
    [k \in 1..Len(buffer) |->
        IF k \in (i + 1)..(i + 3) THEN buffer[i + f[k - i]] ELSE buffer[k]]

\* item i is a SPEAKER tag and the three items after it are one LINE, one
\* LINE_T and one NOTES tag
SpeakerBlockAt(buffer, i) ==
    /\ i + 3 <= Len(buffer)
    /\ buffer[i].tag = "SPEAKER"
    /\ {buffer[i + 1].tag, buffer[i + 2].tag, buffer[i + 3].tag} = {"LINE", "LINE_T", "NOTES"}

\* the value of the item with the tag among the three items after position i
BlockValue(buffer, i, tag) ==
    buffer[CHOOSE k \in (i + 1)..(i + 3) : buffer[k].tag = tag].val

\* C30: in a dialogue block of a SPEAKER tag followed by one LINE, one LINE_T
\* and one NOTES tag every order of the three tags gives the same line in
\* progress (speaker, text, translation, notes) and the same parsed dialogue
C30_BlockOrderFree ==
    pst.currentActivity.type = "DIALOGUE" =>
        LET buffer == pst.activityContentBuffer
        IN  \A i \in 1..Len(buffer) :
                SpeakerBlockAt(buffer, i) =>
                    \A f \in Orders3 :
                        LET other == Reordered(buffer, i, f)
                            line == DialogueAfter(other, i + 3).currentLine
                        IN  /\ line.speaker = buffer[i].val
                            /\ line.text = BlockValue(buffer, i, "LINE")
                            /\ line.translation = BlockValue(buffer, i, "LINE_T")
                            /\ line.notes = BlockValue(buffer, i, "NOTES")
                            /\ parseDialogueLines(other) = parseDialogueLines(buffer)

\* SPEAKER A, NOTES B, LINE_T A, LINE x: the returned line has all four values
C30_Witness ==
    /\ phase = "done"
    /\ result.ok
    /\ text = DialogueOpening \o <<Field("SPEAKER", A), Field("NOTES", B),
                                    Field("LINE_T", A), Field("LINE", X)>>
    /\ result.module.lessons[1].activities[1].lines =
          <<[speaker |-> A, text |-> X, translation |-> A, notes |-> B, vocab |-> <<>>]>>

-----------------------------------------------------------------------------
(* Vocabulary entries of a dialogue *)

\* the number of entries with the word in a vocab list
RECURSIVE EntriesWith(_, _)
EntriesWith(vocab, word) ==
    IF vocab = <<>> THEN 0
    ELSE (IF Head(vocab).word = word THEN 1 ELSE 0) + EntriesWith(Tail(vocab), word)

\* the number of entries with the word in the vocab lists of emitted lines
RECURSIVE EmittedWith(_, _)
EmittedWith(lines, word) ==
    IF lines = <<>> THEN 0
    ELSE EntriesWith(Head(lines).vocab, word) + EmittedWith(Tail(lines), word)

\* the VOCAB tags of the body with the word that a LINE tag with a non-empty
\* value follows
VocabBeforeLine(body, word) ==
    {p \in 1..Len(body) :
        /\ IsTag(body[p], "VOCAB") /\ body[p].val = word
        /\ \E q \in (p + 1)..Len(body) : IsTag(body[q], "LINE") /\ body[q].val # <<>>}

\* C31 (as claimed): every VOCAB tag that a LINE tag with non-empty text
\* follows in the same activity is in the vocab list of exactly one emitted
\* line, wherever the VOCAB tags stand relative to the SPEAKER tag: for every
\* word, the emitted lines hold as many entries as there are such tags
C31_NoVocabLost ==
    (phase = "done" /\ result.ok) =>
        LET body == BodyOf(text, Len(DialogueOpening))
            lines == result.module.lessons[1].activities[1].lines
        IN  \A word \in {X, Y} :
                EmittedWith(lines, word) = Cardinality(VocabBeforeLine(body, word))

\* VOCAB x, SPEAKER A, VOCAB y, LINE x: the one emitted line carries only y
C31_Witness ==
    /\ phase = "done"
    /\ result.ok
    /\ text = DialogueOpening \o <<Field("VOCAB", X), Field("SPEAKER", A),
                                    Field("VOCAB", Y), Field("LINE", X)>>
    /\ Len(result.module.lessons[1].activities[1].lines) = 1
    /\ result.module.lessons[1].activities[1].lines[1].vocab =
          <<[word |-> Y, definition |-> <<>>]>>

-----------------------------------------------------------------------------
(* Items of an exercise *)

\* the last RESPONSE tag of the item the PROMPT tag at p opens
LastResponse(t, p) ==
    CHOOSE j \in (p + 1)..ItemEnd(t, p) :
        IsResponseTag(t[j]) /\ \A r \in (j + 1)..ItemEnd(t, p) : ~IsResponseTag(t[r])

\* C32: parseExerciseItems emits an item for a PROMPT tag exactly when the
\* prompt has a value and the last RESPONSE tag before the next PROMPT tag (or
\* the end of the activity) exists and has a value; the item holds that prompt
\* and that response; every other prompt and a RESPONSE before the first
\* PROMPT are dropped without an error, and the items keep source order
C32_ItemPerCompletedPrompt ==
    (phase = "done" /\ Len(text) >= Len(ExerciseOpening)
        /\ SubSeq(text, 1, Len(ExerciseOpening)) = ExerciseOpening) =>
        LET items == result.module.lessons[1].activities[1].items
            at    == EmittedPrompts(text)
        IN  /\ result.ok
            /\ Len(items) = Cardinality({p \in 1..Len(text) : ItemEmitted(text, p)})
            /\ Len(items) = Len(at)
            /\ \A k \in 1..Len(items) :
                  /\ items[k].prompt = text[at[k]].val
                  /\ items[k].response = text[LastResponse(text, at[k])].val

\* a RESPONSE before the first PROMPT and a PROMPT without value are dropped,
\* the pair after them is the only item
C32_Witness ==
    /\ phase = "done"
    /\ result.ok
    /\ text = ExerciseOpening \o <<Field("RESPONSE", B), Field("PROMPT", <<>>),
                                    Field("RESPONSE", B), Field("PROMPT", A),
                                    Field("RESPONSE", B)>>
    /\ Len(result.module.lessons[1].activities[1].items) = 1
    /\ result.module.lessons[1].activities[1].items[1].prompt = A


(***************************************************************************)
(* The implicit lesson, seen by the linter and by the parser               *)
(***************************************************************************)

\* the number of activity markers among the first i lines
ActivityRank(t, i) == Len(SelectSeq(SubSeq(t, 1, i), IsActivityMarker))

\* the id of the lesson that holds the n-th activity of the Module
RECURSIVE LessonIdOfNth(_, _)
LessonIdOfNth(lessons, n) ==
    IF lessons = <<>> THEN Undefined
    ELSE IF n <= Len(Head(lessons).activities) THEN Head(lessons).id
    ELSE LessonIdOfNth(Tail(lessons), n - Len(Head(lessons).activities))

\* C33: lintModuleText warns implicit-lesson on a line exactly when the line is
\* an activity marker and parseModuleFile places the activity it opens in the
\* lesson with id default-lesson
C33_ImplicitLessonIffDefault ==
    phase = "done" =>
        \A i \in 1..Len(text) :
            LintWarning(diagnostics, i, "implicit-lesson") <=>
                /\ IsActivityMarker(text[i])
                /\ result.ok
                /\ LessonIdOfNth(result.module.lessons, ActivityRank(text, i))
                       = DefaultLessonId

\* an activity before the first $LESSON marker is warned about, one after the
\* marker and a following $MODULE marker is not
C33_Witness ==
    /\ phase = "done"
    /\ result.ok
    /\ \E i, j, k, m \in 1..Len(text) :
          /\ i < j /\ j < k /\ k < m
          /\ IsActivityMarker(text[i])
          /\ LintWarning(diagnostics, i, "implicit-lesson")
          /\ IsLessonMarker(text[j])
          /\ IsMarkerNamed(text[k], {"MODULE"})
          /\ IsActivityMarker(text[m])
          /\ ~LintWarning(diagnostics, m, "implicit-lesson")
          /\ LessonIdOfNth(result.module.lessons, ActivityRank(text, m)) # DefaultLessonId


(***************************************************************************)
(* VOCAB and VOCAB_T pairs of a dialogue, as the linter sees them          *)
(***************************************************************************)

MaxVocabLines == 4

VocabLines ==
    {Field("VOCAB", X), Field("VOCAB_T", A), Field("LINE", X), Field("SPEAKER", A),
     Field("NOTES", B), Raw(Y), Marker("DIALOGUE"), Marker("FOO"),
     MarkerColon("LESSON", A), Indented("SP", Field("VOCAB_T", A))}

NextVocab ==
    \/ text = <<>> /\ ReadLines(DialogueOpening)
    \/ \E l \in VocabLines :
          /\ text # <<>>
          /\ Len(text) < Len(DialogueOpening) + MaxVocabLines
          /\ ReadLine(l)
    \/ EndOfInput

SpecVocab == Init /\ [][NextVocab]_vars

\* line i of t stands in a dialogue: the last section marker before it is
\* $DIALOGUE
InDialogueAt(t, i) ==
    \E j \in 1..(i - 1) :
        /\ IsMarkerNamed(t[j], {"DIALOGUE"})
        /\ \A k \in (j + 1)..(i - 1) : ~IsMarkerNamed(t[k], sectionNames)

\* a line that ends the wait of a VOCAB tag for its VOCAB_T tag
EndsVocabWait(l) ==
    \/ IsTag(l, "VOCAB") \/ IsTag(l, "SPEAKER") \/ IsTag(l, "LINE")
    \/ StartsWithDollar(l) /\ MarkerMatches(l)

\* the VOCAB tag at line i is followed by a VOCAB_T tag before the next VOCAB,
\* SPEAKER or LINE tag, the next section marker or the end of the text
VocabFollowed(t, i) ==
    \E j \in (i + 1)..Len(t) :
        /\ IsTag(t[j], "VOCAB_T")
        /\ \A k \in (i + 1)..(j - 1) : ~EndsVocabWait(t[k])

WarningCount(diags, lineNo, code) ==
    Cardinality({k \in 1..Len(diags) :
                    /\ diags[k].severity = "warning"
                    /\ diags[k].line = lineNo
                    /\ diags[k].code = code})

\* C34: in a dialogue the list has exactly one vocab-missing-vocab_t warning
\* on the line of each VOCAB tag that no VOCAB_T tag follows before the next
\* VOCAB, SPEAKER or LINE tag, the next section marker or the end of the text,
\* and none on the line of a VOCAB tag that is so followed
C34_VocabPairWarnings ==
    phase = "done" =>
        \A i \in 1..Len(text) :
            (IsTag(text[i], "VOCAB") /\ InDialogueAt(text, i)) =>
                WarningCount(diagnostics, i, "vocab-missing-vocab_t")
                    = IF VocabFollowed(text, i) THEN 0 ELSE 1

\* a VOCAB tag cut off by the next line is warned about once, one that waits
\* over a NOTES tag for its VOCAB_T tag is not
C34_Witness ==
    /\ phase = "done"
    /\ \E i, j \in 1..Len(text) :
          /\ IsTag(text[i], "VOCAB") /\ InDialogueAt(text, i)
          /\ i + 1 <= Len(text) /\ EndsVocabWait(text[i + 1])
          /\ WarningCount(diagnostics, i, "vocab-missing-vocab_t") = 1
          /\ IsTag(text[j], "VOCAB") /\ InDialogueAt(text, j)
          /\ j + 2 <= Len(text)
          /\ IsTag(text[j + 1], "NOTES") /\ IsTag(text[j + 2], "VOCAB_T")
          /\ WarningCount(diagnostics, j, "vocab-missing-vocab_t") = 0


(***************************************************************************)
(* RESPONSE tags of an exercise, as the linter sees them                   *)
(***************************************************************************)

\* a PROMPT tag stands between line from (exclusive) and line i
PromptBetween(t, from, i) == \E p \in (from + 1)..(i - 1) : IsPromptTag(t[p])

\* the line of the marker that opened the exercise line i stands in
ExerciseStart(t, i) ==
    CHOOSE j \in 1..(i - 1) :
        /\ IsMarkerNamed(t[j], {"EXERCISE"})
        /\ \A k \in (j + 1)..(i - 1) : ~IsMarkerNamed(t[k], sectionNames)

\* the RESPONSE tag before line i in its exercise, or the line of the marker
PreviousResponse(t, i) ==
    IF \E r \in (ExerciseStart(t, i) + 1)..(i - 1) : IsResponseTag(t[r])
    THEN CHOOSE r \in (ExerciseStart(t, i) + 1)..(i - 1) :
            IsResponseTag(t[r]) /\ \A q \in (r + 1)..(i - 1) : ~IsResponseTag(t[q])
    ELSE ExerciseStart(t, i)

\* C35 (as claimed): in an exercise a RESPONSE tag has the warning
\* response-before-prompt on its line exactly when no PROMPT tag precedes it
\* in the exercise
C35_ResponseBeforePrompt ==
    phase = "done" =>
        \A i \in 1..Len(text) :
            (IsResponseTag(text[i]) /\ InExerciseAt(text, i)) =>
                (LintWarning(diagnostics, i, "response-before-prompt")
                    <=> ~PromptBetween(text, ExerciseStart(text, i), i))

\* what the linter does: the warning is on a RESPONSE tag exactly when no
\* PROMPT tag stands between it and the RESPONSE tag before it
C35_ResponseWithoutFreshPrompt ==
    phase = "done" =>
        \A i \in 1..Len(text) :
            (IsResponseTag(text[i]) /\ InExerciseAt(text, i)) =>
                (LintWarning(diagnostics, i, "response-before-prompt")
                    <=> ~PromptBetween(text, PreviousResponse(text, i), i))

\* a second RESPONSE tag after one PROMPT tag carries the warning
C35_Witness ==
    /\ phase = "done"
    /\ \E i \in 3..Len(text) :
          /\ InExerciseAt(text, i)
          /\ IsPromptTag(text[i - 2])
          /\ IsResponseTag(text[i - 1])
          /\ IsResponseTag(text[i])
          /\ ~LintWarning(diagnostics, i - 1, "response-before-prompt")
          /\ LintWarning(diagnostics, i, "response-before-prompt")


(***************************************************************************)
(* Repeated VOICE_SPEAKER labels                                           *)
(***************************************************************************)

MaxSpeakerLines == 4

LowerA == <<"a">>

SpeakerLines ==
    {Field("VOICE_SPEAKER", Mapped(A, AoedeName)),
     Field("VOICE_SPEAKER", Mapped(LowerA, AoedeName)),
     Field("VOICE_SPEAKER", Mapped(LowerA, Piped(BadName, X))),
     Field("VOICE_SPEAKER", Mapped(B, AoedeName)),
     Field("VOICE_SPEAKER", X),
     Marker("MODULE"), Marker("LESSON"), Field("TITLE", X)}

NextSpeaker ==
    \/ \E l \in SpeakerLines : Len(text) < MaxSpeakerLines /\ ReadLine(l)
    \/ EndOfInput

SpecSpeaker == Init /\ [][NextSpeaker]_vars

\* line i of t is a well-shaped VOICE_SPEAKER line of the header
SpeakerLineAt(t, i) ==
    /\ IsTag(t[i], "VOICE_SPEAKER")
    /\ InLintHeader(t, i)
    /\ SpeakerMatches(Trim(t[i].val))

LabelAt(t, i) == SpeakerNameOf(Trim(t[i].val))

\* the first well-shaped VOICE_SPEAKER line whose label equals, ignoring case,
\* the label of line i
FirstOccurrence(t, i) ==
    CHOOSE j \in 1..i :
        /\ SpeakerLineAt(t, j)
        /\ toLowerCase(LabelAt(t, j)) = toLowerCase(LabelAt(t, i))
        /\ \A k \in 1..(j - 1) :
              ~(SpeakerLineAt(t, k)
                  /\ toLowerCase(LabelAt(t, k)) = toLowerCase(LabelAt(t, i)))

\* the lines named by the voice_speaker-dup warnings on line lineNo
DupWarnings(diags, lineNo) ==
    {k \in 1..Len(diags) :
        /\ diags[k].severity = "warning"
        /\ diags[k].line = lineNo
        /\ diags[k].code = "voice_speaker-dup"}

\* C36: of the well-shaped VOICE_SPEAKER lines whose labels are equal ignoring
\* case, the first has neither a voice_speaker-dup nor a voice_speaker-case
\* warning; every later one has one voice_speaker-dup warning, which names the
\* line of the first, and a voice_speaker-case warning exactly when its label
\* is spelled differently from the first
C36_DuplicateSpeakers ==
    phase = "done" =>
        \A i \in 1..Len(text) :
            SpeakerLineAt(text, i) =>
                IF FirstOccurrence(text, i) = i
                THEN /\ DupWarnings(diagnostics, i) = {}
                     /\ ~LintWarning(diagnostics, i, "voice_speaker-case")
                ELSE /\ Cardinality(DupWarnings(diagnostics, i)) = 1
                     /\ \A k \in DupWarnings(diagnostics, i) :
                           /\ diagnostics[k].message[3] = FirstOccurrence(text, i)
                           /\ diagnostics[k].message[2]
                                  = LabelAt(text, FirstOccurrence(text, i))
                     /\ LintWarning(diagnostics, i, "voice_speaker-case")
                            <=> LabelAt(text, i) # LabelAt(text, FirstOccurrence(text, i))

\* three lines with the labels A, a and a: the second and the third are both
\* warned as duplicates of the first and as spelled differently
C36_Witness ==
    /\ phase = "done"
    /\ \E i, j, k \in 1..Len(text) :
          /\ i < j /\ j < k
          /\ SpeakerLineAt(text, i) /\ SpeakerLineAt(text, j) /\ SpeakerLineAt(text, k)
          /\ LabelAt(text, i) = A
          /\ LabelAt(text, j) = LowerA
          /\ LabelAt(text, k) = LowerA
          /\ DupWarnings(diagnostics, i) = {}
          /\ DupWarnings(diagnostics, j) # {}
          /\ DupWarnings(diagnostics, k) # {}
          /\ LintWarning(diagnostics, k, "voice_speaker-case")


(***************************************************************************)
(* The fields the parser applies and the fields the linter accepts         *)
(***************************************************************************)

MaxFieldLines == 4

\* `x | B | Aoede`
VoiceLine == Piped(X, Piped(B, AoedeName))

FieldLines ==
    {Field("VOICE", VoiceLine), Field("TTS_PROMPT", X), Field("TITLE", X),
     Field("INSTRUCTION", A), Field("SCENARIO", X), Field("NOTES", B),
     Marker("DIALOGUE"), Marker("EXERCISE"), Marker("CHAT")}

NextFields ==
    \/ \E l \in FieldLines : Len(text) < MaxFieldLines /\ ReadLine(l)
    \/ EndOfInput

SpecFields == Init /\ [][NextFields]_vars

\* the parser's state before it reads line i of t
ParserBefore(t, i) == ParseOver(NewParserState, SubSeq(t, 1, i - 1))

\* the values a field is tried with
FieldProbes == {X, Y, VoiceLine, Piped(Y, Piped(B, AoedeName))}

\* the state but for the content buffer
Attributes(state) == [state EXCEPT !.activityContentBuffer = <<>>]

\* handleField applies the field in this state: with some value it sets an
\* attribute of the module, of the voice configuration or of the open activity
AppliesField(state, field) ==
    \E v \in FieldProbes : Attributes(handleField(state, field, v)) # Attributes(state)

\* the list has a diagnostic on this line
DiagnosticOn(diags, lineNo) == \E k \in 1..Len(diags) : diags[k].line = lineNo

\* C37 (as claimed): a field line whose name parseModuleFile applies where it
\* stands has neither an unknown-header-field nor a field-unexpected warning
\* from lintModuleText, and a well-formed VOICE line of the header has no
\* diagnostic at all
C37_AppliedFieldsAccepted ==
    phase = "done" =>
        \A i \in 1..Len(text) :
            (FieldMatches(text[i]) /\ AppliesField(ParserBefore(text, i), text[i].name)) =>
                /\ ~LintWarning(diagnostics, i, "unknown-header-field")
                /\ ~LintWarning(diagnostics, i, "field-unexpected")
                /\ text[i].name = "VOICE" => ~DiagnosticOn(diagnostics, i)

\* the parser has taken the speaker of a VOICE line of the header and the
\* prompt of a TTS_PROMPT line of a dialogue, and the linter has warned about
\* both lines
C37_Witness ==
    /\ phase = "done"
    /\ \E i, j \in 1..Len(text) :
          /\ IsTag(text[i], "VOICE")
          /\ ParserBefore(text, i + 1).voiceConfig.speakers
                 # ParserBefore(text, i).voiceConfig.speakers
          /\ LintWarning(diagnostics, i, "unknown-header-field")
          /\ IsTag(text[j], "TTS_PROMPT")
          /\ ParserBefore(text, j).currentActivity.type = "DIALOGUE"
          /\ ParserBefore(text, j + 1).currentActivity.ttsPrompt = X
          /\ LintWarning(diagnostics, j, "field-unexpected")


(***************************************************************************)
(* Missing header fields, for the parser and for the linter                *)
(***************************************************************************)

\* the values the validation of parseModuleFile tests, in its order
ValidatedAttributes(mod) ==
    <<mod.diocoDocId, mod.title, mod.targetLang_G, mod.homeLang_G>>

\* C38 (as claimed): for a text whose first line is $MODULE, the validation of
\* parseModuleFile finds a mandatory header field missing exactly when
\* lintModuleText reports the missing-field error of that field
C38_SameMissingFields ==
    (phase = "done" /\ IsMarkerNamed(text[1], {"MODULE"})) =>
        \A k \in 1..4 :
            ~Truthy(ValidatedAttributes(pst.module)[k])
                <=> ErrorCount(diagnostics, MissingCodes[k]) >= 1

\* $MODULE, then a TITLE line with an empty value among the header lines:
\* parseModuleFile throws Missing TITLE, the linter has no missing-title error
C38_Witness ==
    /\ phase = "done"
    /\ IsMarkerNamed(text[1], {"MODULE"})
    /\ \E i \in 2..Len(text) :
          /\ IsTag(text[i], "TITLE") /\ text[i].val = <<>>
          /\ i <= HeaderLen(text)
    /\ result = Thrown("Missing TITLE in .module file")
    /\ ErrorCount(diagnostics, "missing-title") = 0


(***************************************************************************)
(* The current activity of the parser and of the linter                    *)
(***************************************************************************)

\* C39 (as claimed): after every line the activity kind the linter holds as
\* current is the type of the activity the parser has open, both none when
\* no activity is open
C39_SameCurrentActivity ==
    phase = "reading" => lst.currentActivity = pst.currentActivity.type

\* the same for texts without a $MODULE marker after the header
C39_SameCurrentActivityWithoutModule ==
    (phase = "reading"
        /\ \A i \in 1..Len(text) : ~IsMarkerNamed(text[i], {"MODULE"}))
        => lst.currentActivity = pst.currentActivity.type

\* after $DIALOGUE and $MODULE the parser has the dialogue open and the
\* linter holds no activity
C39_Witness ==
    /\ phase = "reading"
    /\ Len(text) >= 2
    /\ IsMarkerNamed(text[Len(text) - 1], {"DIALOGUE"})
    /\ IsMarkerNamed(text[Len(text)], {"MODULE"})
    /\ pst.currentActivity.type = "DIALOGUE"
    /\ lst.currentActivity = "NONE"


(***************************************************************************)
(* The lines of an activity, for the parser and for the indexer            *)
(***************************************************************************)

\* the parser attributes line i of t to the activity it has open: the line is
\* no column-0 $ line and processLine stores its field or its content
AttributedAt(t, i) ==
    /\ ~StartsWithDollar(t[i])
    /\ ParserBefore(t, i).currentActivity # NoActivity
    /\ processLine(ParserBefore(t, i), t[i]) # ParserBefore(t, i)

\* the markers of t that open an activity
ActivityStarts(t) == {i \in 1..Len(t) : IsMarkerNamed(t[i], ActivityMarkers)}

\* no two activities of t have the same id
UniqueActivityIds(t) ==
    \A i, j \in ActivityStarts(t) :
        i # j => ParserBefore(t, i + 1).currentActivity.id
                     # ParserBefore(t, j + 1).currentActivity.id

\* line i lies in the block the index has for the id
WithinBlock(index, id, i) ==
    /\ id \in DOMAIN index
    /\ index[id].startLine <= i
    /\ i <= index[id].endLine

\* C40 (as claimed): for a text with unique activity ids, every line the
\* parser attributes to an activity lies within the block buildActivityRawIndex
\* records for the id of that activity
C40_AttributedLinesInBlock ==
    (phase = "done" /\ UniqueActivityIds(text)) =>
        \A i \in 1..Len(text) :
            AttributedAt(text, i) =>
                WithinBlock(rawIndex, ParserBefore(text, i).currentActivity.id, i)

\* the same for the lines with no column-0 $ line between them and the marker
\* of their activity
C40_AttributedLinesInBlockUpToDollar ==
    (phase = "done" /\ UniqueActivityIds(text)) =>
        \A i \in 1..Len(text) :
            (AttributedAt(text, i)
                /\ \E j \in ActivityStarts(text) :
                      j < i /\ \A k \in (j + 1)..(i - 1) : ~StartsWithDollar(text[k])) =>
                WithinBlock(rawIndex, ParserBefore(text, i).currentActivity.id, i)

\* a LINE tag after an unknown marker inside a dialogue: the parser puts it
\* into the dialogue, the block of the dialogue ends before the marker
C40_Witness ==
    /\ phase = "done"
    /\ UniqueActivityIds(text)
    /\ \E i \in 3..Len(text) :
          /\ IsMarkerNamed(text[i - 2], {"DIALOGUE"})
          /\ IsMarkerNamed(text[i - 1], {"FOO"})
          /\ IsTag(text[i], "LINE")
          /\ AttributedAt(text, i)
          /\ ParserBefore(text, i).currentActivity.id \in DOMAIN rawIndex
          /\ rawIndex[ParserBefore(text, i).currentActivity.id].endLine = i - 2

====
